---- MODULE Spec2Model ----
(***************************************************************************)
(* Model of the log-entry segmenter MinecraftLogParser.parse_log of the    *)
(* BiomePruner tooling.  Its three implementations are modelled:           *)
(*   "standalone"  src/minecraft_log_parser.py (tests the raw line),       *)
(*   "runner"      src/claude_tooling/scripts/run_automated_tests.py       *)
(*                 (the copy used by the test runner, tests the raw line), *)
(*   "tooling"     src/claude_tooling/scripts/log_parser.py (tests the     *)
(*                 right-trimmed line and also collects tagged lines).     *)
(* A text is a sequence of one-character strings; the regular expressions  *)
(* and string tests of the code are operators over such sequences.         *)
(***************************************************************************)
EXTENDS Integers, Sequences, FiniteSets, TLC

VARIABLES
    variant,               \* which class the parser object belongs to
    file_state,            \* "ok", "missing" or "unreadable": the log file on disk
    file_content,          \* the characters of the log file
    lines,                 \* local `lines` of parse_log (result of readlines)
    i,                     \* number of loop iterations completed
    current_entry,         \* local `current_entry` (None or the open accumulator)
    entries,               \* self.entries
    biomepruner_messages,  \* self.biomepruner_messages (tooling only)
    pc,                    \* position in parse_log: "start", "loop", "done"
    result,                \* value returned by parse_log
    calls,                 \* parse_log invocations begun on parser objects so far
    snapshot,              \* what the first invocation left in the parser object
    parked,                \* the parser objects that are not executing now
    stepped,               \* the executing object has made its step of this round
    runner,                \* the AutomatedTestRunner object and its place in run
    config_file,           \* content of CONFIG_FILE (biomepruner-common.toml)
    config_writes,         \* the writes the test runner made to CONFIG_FILE, in order
    files,                 \* the backup files on disk, by name
    cm,                    \* config_manager: the clock and the last command's result
    artifacts,             \* collect_test_artifacts: its place and the results directory
    builder                \* build_script: the MinecraftModBuilder object and its place in run

vars == <<variant, file_state, file_content, lines, i, current_entry, entries,
          biomepruner_messages, pc, result>>

\* State used only by the specifications of repeated and side-by-side parses.
rerun_vars == <<calls, snapshot>>
equiv_vars == <<parked, stepped>>

\* State of the tools that work on the mod's configuration file.
tool_vars == <<runner, config_file, config_writes, files, cm>>

\* State used only by config_manager.
cm_vars == <<files, cm>>

\* State of the scripts that collect the test results and build the mod.
script_vars == <<artifacts, builder>>

(***************************************************************************)
(* Bounds of the model.                                                    *)
(***************************************************************************)
MaxLines == 3

\* Lines of the log file when a parse is repeated, and invocations of
\* parse_log on one parser object.
MaxLinesRerun == 2
MaxCalls == 2

\* Lines of the log file when the three classes parse it side by side.
MaxLinesEquiv == 2

(***************************************************************************)
(* Character classes and string primitives of Python used by the code.     *)
(***************************************************************************)
\* str.isspace / regex \s, restricted to the characters of the model.
IsSpace(c) == c \in {" ", "\t", "\n"}

\* str.rstrip(): drop the trailing whitespace (the line terminator included).
RECURSIVE rstrip(_)
rstrip(s) ==
    IF s = <<>> THEN <<>>
    ELSE IF IsSpace(s[Len(s)]) THEN rstrip(SubSeq(s, 1, Len(s) - 1))
    ELSE s

\* `sub in s`
Contains(s, sub) ==
    \E k \in 1..(Len(s) - Len(sub) + 1) : SubSeq(s, k, k + Len(sub) - 1) = sub

\* s.startswith(p)
startswith(s, p) == Len(s) >= Len(p) /\ SubSeq(s, 1, Len(p)) = p

\* s.endswith(p)
EndsWith(s, p) == Len(s) >= Len(p) /\ SubSeq(s, Len(s) - Len(p) + 1, Len(s)) = p

\* Least index k >= from with s[k] = c, or 0 when there is none.
IndexFrom(s, c, from) ==
    LET hits == {k \in from..Len(s) : s[k] = c}
    IN  IF hits = {} THEN 0 ELSE CHOOSE k \in hits : \A h \in hits : k <= h

\* Least index k >= from whose character is no whitespace, or Len(s)+1.
SkipSpace(s, from) ==
    LET stops == {k \in from..Len(s) : ~IsSpace(s[k])}
    IN  IF stops = {} THEN Len(s) + 1 ELSE CHOOSE k \in stops : \A h \in stops : k <= h


(***************************************************************************)
(* The two compiled patterns of parse_log.                                 *)
(***************************************************************************)
NoMatch == [matched |-> FALSE]

Levels == { <<"W","A","R","N">>, <<"E","R","R","O","R">>, <<"F","A","T","A","L">> }

\* log_pattern.match(s) for  ^\[([^\]]+)\]\s*\[([^\]]+)/(WARN|ERROR|FATAL)\]
\* The match is anchored at the first character.  Group 1 cannot hold a ']',
\* so it ends at the first ']' and must be non-empty; \s* takes all the
\* whitespace that follows (it cannot give any back: the next item is '[');
\* group 2 cannot hold a ']' either, so the text up to the next ']' has to be
\* <group 2>/<LEVEL> with a non-empty group 2.
log_pattern(s) ==
    IF ~startswith(s, <<"[">>) THEN NoMatch
    ELSE LET p1 == IndexFrom(s, "]", 2)
         IN  IF p1 < 3 THEN NoMatch
             ELSE LET q == SkipSpace(s, p1 + 1)
                  IN  IF q > Len(s) \/ s[q] /= "[" THEN NoMatch
                      ELSE LET p2   == IndexFrom(s, "]", q + 1)
                               body == SubSeq(s, q + 1, p2 - 1)
                               lv   == {l \in Levels :
                                          /\ Len(body) >= Len(l) + 2
                                          /\ EndsWith(body, <<"/">> \o l)}
                           IN  IF p2 = 0 \/ lv = {} THEN NoMatch
                               ELSE LET l == CHOOSE x \in lv : TRUE
                                    IN  [matched |-> TRUE,
                                         group1  |-> SubSeq(s, 2, p1 - 1),
                                         group2  |-> SubSeq(body, 1, Len(body) - Len(l) - 1),
                                         group3  |-> l]

\* Case folding of re.IGNORECASE for the letters of the model's alphabet.
LowerOf == [B |-> "b", I |-> "i", O |-> "o", M |-> "m", E |-> "e", P |-> "p",
            R |-> "r", U |-> "u", N |-> "n", W |-> "w", A |-> "a", F |-> "f",
            T |-> "t", L |-> "l"]

Lower(c) == IF c \in DOMAIN LowerOf THEN LowerOf[c] ELSE c

LowerSeq(s) == [k \in 1..Len(s) |-> Lower(s[k])]

\* bool(biomepruner_pattern.search(s)) for biomepruner|BiomePruner, IGNORECASE
biomepruner_pattern(s) ==
    Contains(LowerSeq(s), <<"b","i","o","m","e","p","r","u","n","e","r">>)

\* Variant of the boundary heuristic that looks for '][' (the space lost).
is_timestamped_nospace(s) == startswith(s, <<"[">>) /\ Contains(s, <<"]","[">>)

\* The boundary heuristic: s.startswith('[') and '] [' in s
is_timestamped(s) == startswith(s, <<"[">>) /\ Contains(s, <<"]"," ","[">>)

(***************************************************************************)
(* The log files of the model: up to MaxLines lines drawn from LineBodies, *)
(* joined by line terminators, the last line with or without one.          *)
(***************************************************************************)
TS   == <<"[","t","]">>
WARN == <<"[","c","/","W","A","R","N","]">>
ERR  == <<"[","c","/","E","R","R","O","R","]">>
FATL == <<"[","c","/","F","A","T","A","L","]">>
INFO == <<"[","c","/","I","N","F","O","]">>
Wlow == <<"[","c","/","w","a","r","n","]">>
BPm  == <<"B","i","o","m","e","P","r","u","n","e","r">>
BPu  == <<"B","I","O","M","E","P","R","U","N","E","R">>
BPl  == <<"b","i","o","m","e","p","r","u","n","e","r">>

LineBodies ==
    { TS \o <<" ">> \o WARN \o <<" ","m">>,          \* [t] [c/WARN] m
      TS \o ERR,                                     \* [t][c/ERROR]
      TS \o <<"\t">> \o FATL \o <<" ">> \o BPm,      \* [t]<TAB>[c/FATAL] BiomePruner
      TS \o <<" ">> \o INFO \o <<" ","m"," ">>,      \* [t] [c/INFO] m<SP>
      TS \o <<" ">> \o Wlow \o <<" ">> \o BPu,       \* [t] [c/warn] BIOMEPRUNER
      TS \o INFO \o <<" ","m">>,                     \* [t][c/INFO] m
      <<"\t","a","t"," ","x"," ">>,                  \* <TAB>at x<SP>
      <<"x"," ">> \o BPl,                            \* x biomepruner
      <<"[","x">>,                                   \* [x
      <<"x","]"," ","[","y">>,                       \* x] [y
      <<"[","]"," ">> \o WARN,                       \* [] [c/WARN]
      <<>> }                                         \* the empty line

\* The sequences over S of length at most n.
SeqsUpTo(S, n) == UNION {[1..k -> S] : k \in 0..n}

RECURSIVE Join(_, _)
\* The text of a file whose lines are `bodies`; the last line is terminated
\* iff final_newline.
Join(bodies, final_newline) ==
    IF bodies = <<>> THEN <<>>
    ELSE IF Len(bodies) = 1
         THEN bodies[1] \o (IF final_newline THEN <<"\n">> ELSE <<>>)
         ELSE bodies[1] \o <<"\n">> \o Join(Tail(bodies), final_newline)

RECURSIVE readlines(_)
\* f.readlines(): cut the text after every line terminator; each line keeps
\* its terminator, a last unterminated line is kept as it is.
readlines(text) ==
    IF text = <<>> THEN <<>>
    ELSE LET nl == IndexFrom(text, "\n", 1)
         IN  IF nl = 0 THEN <<text>>
             ELSE <<SubSeq(text, 1, nl)>> \o readlines(SubSeq(text, nl + 1, Len(text)))

(***************************************************************************)
(* State after construction of the parser object.                          *)
(***************************************************************************)
None == [line_number |-> 0]

Variants == {"standalone", "tooling"}

\* No first invocation has completed yet.
NoSnapshot == [taken |-> FALSE]

\* No tool that works on the configuration file has been started.
ScriptsIdle ==
    /\ artifacts = [pc |-> "idle"]
    /\ builder = [pc |-> "idle"]

ToolsIdle ==
    /\ ScriptsIdle
    /\ runner = [pc |-> "idle"]
    /\ config_file = [kind |-> "none"]
    /\ config_writes = <<>>
    /\ files = <<>>
    /\ cm = [now |-> 0]

\* The log file on disk (at most n lines) and a freshly constructed parser.
InitParser(n) ==
    /\ \/ /\ file_state = "ok"
          /\ \E bodies \in SeqsUpTo(LineBodies, n), final_newline \in BOOLEAN :
                 file_content = Join(bodies, final_newline)
       \/ /\ file_state \in {"missing", "unreadable"}
          /\ file_content = <<>>
    /\ lines = <<>>
    /\ i = 0
    /\ current_entry = None
    /\ entries = <<>>
    /\ biomepruner_messages = <<>>
    /\ pc = "start"
    /\ result = "none"

\* One parser object, of either class, invoked once.
Init ==
    /\ variant \in Variants
    /\ InitParser(MaxLines)
    /\ calls = 1
    /\ snapshot = NoSnapshot
    /\ parked = <<>>
    /\ stepped = FALSE
    /\ ToolsIdle

(***************************************************************************)
(* parse_log up to the loop.  The code of the two classes is the same      *)
(* here (minecraft_log_parser.py lines 18-33, log_parser.py lines 50-67).  *)
(***************************************************************************)
\* Variant of NotFound without the existence test: the parse goes on with
\* no lines.
NotFound_proceeds ==
    /\ pc = "start"
    /\ file_state = "missing"
    /\ lines' = <<>>
    /\ current_entry' = None
    /\ i' = 0
    /\ pc' = "loop"
    /\ UNCHANGED <<variant, file_state, file_content, entries,
                   biomepruner_messages, result>>

\* if not self.log_path.exists(): return False
NotFound ==
    /\ pc = "start"
    /\ file_state = "missing"
    /\ pc' = "done"
    /\ result' = "False"
    /\ UNCHANGED <<variant, file_state, file_content, lines, i, current_entry,
                   entries, biomepruner_messages>>

\* except Exception: return False
ReadError ==
    /\ pc = "start"
    /\ file_state = "unreadable"
    /\ pc' = "done"
    /\ result' = "False"
    /\ UNCHANGED <<variant, file_state, file_content, lines, i, current_entry,
                   entries, biomepruner_messages>>

\* lines = f.readlines(); current_entry = None
ReadLines ==
    /\ pc = "start"
    /\ file_state = "ok"
    /\ lines' = readlines(file_content)
    /\ current_entry' = None
    /\ i' = 0
    /\ pc' = "loop"
    /\ UNCHANGED <<variant, file_state, file_content, entries,
                   biomepruner_messages, result>>

(***************************************************************************)
(* The pieces of the loop body.                                            *)
(***************************************************************************)
\* Variant of save_previous that forgets the open entry.
save_previous_drop(cur, ents) == ents

\* if current_entry: self.entries.append(current_entry)      (header branch)
save_previous(cur, ents) == IF cur /= None THEN Append(ents, cur) ELSE ents

\* Variant of close_entry that leaves the accumulator open.
close_entry_keep(cur, ents) == [entries |-> Append(ents, cur), current_entry |-> cur]

\* self.entries.append(current_entry); current_entry = None  (boundary branch)
close_entry(cur, ents) == [entries |-> Append(ents, cur), current_entry |-> None]

\* Variant of new_entry_standalone with the first two groups exchanged.
new_entry_standalone_swapped(n, match, line) ==
    [line_number |-> n,
     timestamp   |-> match.group2,
     category    |-> match.group1,
     level       |-> match.group3,
     content     |-> <<rstrip(line)>>]

\* the dict built for a header line in minecraft_log_parser.py
new_entry_standalone(n, match, line) ==
    [line_number |-> n,
     timestamp   |-> match.group1,
     category    |-> match.group2,
     level       |-> match.group3,
     content     |-> <<rstrip(line)>>]

\* Variant of continue_entry_standalone that stores the raw line.
continue_entry_standalone_raw(cur, line) ==
    [cur EXCEPT !.content = Append(@, line)]

\* current_entry['content'].append(line.rstrip())
continue_entry_standalone(cur, line) ==
    [cur EXCEPT !.content = Append(@, rstrip(line))]

\* the dict built for a header line in run_automated_tests.py
new_entry_runner(n, match, line) ==
    [line_number |-> n,
     timestamp   |-> match.group1,
     category    |-> match.group2,
     level       |-> match.group3,
     content     |-> <<rstrip(line)>>]

\* Variant of continue_entry_runner that stores the raw line.
continue_entry_runner_raw(cur, line) ==
    [cur EXCEPT !.content = Append(@, line)]

\* current_entry['content'].append(line.rstrip())   (run_automated_tests.py)
continue_entry_runner(cur, line) ==
    [cur EXCEPT !.content = Append(@, rstrip(line))]

\* Variant of new_entry_tooling whose content starts empty.
new_entry_tooling_nocontent(n, match, line_stripped) ==
    [line_number     |-> n,
     timestamp       |-> match.group1,
     thread_category |-> match.group2,
     level           |-> match.group3,
     content         |-> <<>>,
     is_biomepruner  |-> biomepruner_pattern(line_stripped)]

\* the dict built for a header line in log_parser.py
new_entry_tooling(n, match, line_stripped) ==
    [line_number     |-> n,
     timestamp       |-> match.group1,
     thread_category |-> match.group2,
     level           |-> match.group3,
     content         |-> <<line_stripped>>,
     is_biomepruner  |-> biomepruner_pattern(line_stripped)]

\* Variant of continue_entry_tooling that never updates the flag.
continue_entry_tooling_noflag(cur, line_stripped) ==
    [cur EXCEPT !.content = Append(@, line_stripped)]

\* the continuation branch of log_parser.py
continue_entry_tooling(cur, line_stripped) ==
    [cur EXCEPT !.content = Append(@, line_stripped),
                !.is_biomepruner = IF biomepruner_pattern(line_stripped)
                                   THEN TRUE ELSE @]

\* Variant of scan_biomepruner that records the 0-based index.
scan_biomepruner_zero_based(msgs, n, line_stripped) ==
    IF biomepruner_pattern(line_stripped)
    THEN Append(msgs, [line_number |-> n - 1, content |-> line_stripped])
    ELSE msgs

\* the BiomePruner scan made for every line in log_parser.py
scan_biomepruner(msgs, n, line_stripped) ==
    IF biomepruner_pattern(line_stripped)
    THEN Append(msgs, [line_number |-> n, content |-> line_stripped])
    ELSE msgs

(***************************************************************************)
(* One iteration of the loop, for each class.                              *)
(***************************************************************************)
StandaloneLine ==
    /\ variant = "standalone"
    /\ pc = "loop"
    /\ i < Len(lines)
    /\ LET line  == lines[i + 1]
           match == log_pattern(line)
       IN  IF match.matched
           THEN /\ entries' = save_previous(current_entry, entries)
                /\ current_entry' = new_entry_standalone(i + 1, match, line)
           ELSE IF current_entry /= None
                THEN IF is_timestamped(line)
                     THEN /\ entries' = close_entry(current_entry, entries).entries
                          /\ current_entry' =
                                 close_entry(current_entry, entries).current_entry
                     ELSE /\ current_entry' =
                                 continue_entry_standalone(current_entry, line)
                          /\ UNCHANGED entries
                ELSE UNCHANGED <<current_entry, entries>>
    /\ i' = i + 1
    /\ UNCHANGED <<variant, file_state, file_content, lines,
                   biomepruner_messages, pc, result>>

RunnerLine ==
    /\ variant = "runner"
    /\ pc = "loop"
    /\ i < Len(lines)
    /\ LET line  == lines[i + 1]
           match == log_pattern(line)
       IN  IF match.matched
           THEN /\ entries' = save_previous(current_entry, entries)
                /\ current_entry' = new_entry_runner(i + 1, match, line)
           ELSE IF current_entry /= None
                THEN IF is_timestamped(line)
                     THEN /\ entries' = close_entry(current_entry, entries).entries
                          /\ current_entry' =
                                 close_entry(current_entry, entries).current_entry
                     ELSE /\ current_entry' =
                                 continue_entry_runner(current_entry, line)
                          /\ UNCHANGED entries
                ELSE UNCHANGED <<current_entry, entries>>
    /\ i' = i + 1
    /\ UNCHANGED <<variant, file_state, file_content, lines,
                   biomepruner_messages, pc, result>>

ToolingLine ==
    /\ variant = "tooling"
    /\ pc = "loop"
    /\ i < Len(lines)
    /\ LET line          == lines[i + 1]
           line_number   == i + 1
           line_stripped == rstrip(line)
           match         == log_pattern(line_stripped)
       IN  /\ biomepruner_messages' =
                  scan_biomepruner(biomepruner_messages, line_number, line_stripped)
           /\ IF match.matched
              THEN /\ entries' = save_previous(current_entry, entries)
                   /\ current_entry' =
                          new_entry_tooling(line_number, match, line_stripped)
              ELSE IF current_entry /= None
                   THEN IF is_timestamped(line_stripped)
                        THEN /\ entries' =
                                    close_entry(current_entry, entries).entries
                             /\ current_entry' =
                                    close_entry(current_entry, entries).current_entry
                        ELSE /\ current_entry' =
                                    continue_entry_tooling(current_entry, line_stripped)
                             /\ UNCHANGED entries
                   ELSE UNCHANGED <<current_entry, entries>>
    /\ i' = i + 1
    /\ UNCHANGED <<variant, file_state, file_content, lines, pc, result>>

(***************************************************************************)
(* After the loop: the last entry is saved and parse_log returns True.     *)
(***************************************************************************)
\* Variant of flush_last that forgets the last entry.
flush_last_forget(cur, ents) == ents

\* if current_entry: self.entries.append(current_entry)      (after the loop)
flush_last(cur, ents) == IF cur /= None THEN Append(ents, cur) ELSE ents

\* Variant of Finish that may leave the loop before the last line.
Finish_early ==
    /\ pc = "loop"
    /\ entries' = flush_last(current_entry, entries)
    /\ current_entry' = None
    /\ pc' = "done"
    /\ result' = "True"
    /\ UNCHANGED <<variant, file_state, file_content, lines, i,
                   biomepruner_messages>>

Finish ==
    /\ pc = "loop"
    /\ i = Len(lines)
    /\ entries' = flush_last(current_entry, entries)
    /\ current_entry' = None
    /\ pc' = "done"
    /\ result' = "True"
    /\ UNCHANGED <<variant, file_state, file_content, lines, i,
                   biomepruner_messages>>

Next ==
    \/ NotFound /\ UNCHANGED <<rerun_vars, equiv_vars, tool_vars, script_vars>>
    \/ ReadError /\ UNCHANGED <<rerun_vars, equiv_vars, tool_vars, script_vars>>
    \/ ReadLines /\ UNCHANGED <<rerun_vars, equiv_vars, tool_vars, script_vars>>
    \/ StandaloneLine /\ UNCHANGED <<rerun_vars, equiv_vars, tool_vars, script_vars>>
    \/ ToolingLine /\ UNCHANGED <<rerun_vars, equiv_vars, tool_vars, script_vars>>
    \/ Finish /\ UNCHANGED <<rerun_vars, equiv_vars, tool_vars, script_vars>>

Spec == Init /\ [][Next]_vars

(***************************************************************************)
(* Repeated parses of the same, unchanged log file: by a newly constructed *)
(* parser object, or by a further parse_log call on the same object.       *)
(* `snapshot` remembers what the first invocation left behind, so that     *)
(* later invocations can be compared with it.                              *)
(***************************************************************************)
\* What is in the parser object now, if no first result was recorded yet.
take_snapshot ==
    IF snapshot.taken THEN snapshot
    ELSE [taken |-> TRUE, entries |-> entries,
          biomepruner_messages |-> biomepruner_messages, result |-> result]

\* Variant of constructed in which the lists are shared by all objects.
constructed_shared ==
    [entries |-> entries, biomepruner_messages |-> biomepruner_messages]

\* __init__: self.entries = []; self.biomepruner_messages = []
constructed == [entries |-> <<>>, biomepruner_messages |-> <<>>]

\* MinecraftLogParser(log_path).parse_log(): another object of the same
\* class is constructed for the same path and its parse_log is entered.
Construct ==
    /\ pc = "done"
    /\ snapshot' = take_snapshot
    /\ entries' = constructed.entries
    /\ biomepruner_messages' = constructed.biomepruner_messages
    /\ calls' = 1
    /\ lines' = <<>>
    /\ i' = 0
    /\ current_entry' = None
    /\ pc' = "start"
    /\ result' = "none"
    /\ UNCHANGED <<variant, file_state, file_content>>

\* parser.parse_log() once more on the same object: the locals are new, the
\* attributes self.entries and self.biomepruner_messages are what they were.
CallAgain ==
    /\ pc = "done"
    /\ calls < MaxCalls
    /\ snapshot' = take_snapshot
    /\ calls' = calls + 1
    /\ lines' = <<>>
    /\ i' = 0
    /\ current_entry' = None
    /\ pc' = "start"
    /\ result' = "none"
    /\ UNCHANGED <<variant, file_state, file_content, entries,
                   biomepruner_messages>>

InitRerun ==
    /\ variant \in Variants
    /\ InitParser(MaxLinesRerun)
    /\ calls = 1
    /\ snapshot = NoSnapshot
    /\ parked = <<>>
    /\ stepped = FALSE
    /\ ToolsIdle

NextRerun ==
    \/ NotFound /\ UNCHANGED <<rerun_vars, equiv_vars, tool_vars, script_vars>>
    \/ ReadError /\ UNCHANGED <<rerun_vars, equiv_vars, tool_vars, script_vars>>
    \/ ReadLines /\ UNCHANGED <<rerun_vars, equiv_vars, tool_vars, script_vars>>
    \/ StandaloneLine /\ UNCHANGED <<rerun_vars, equiv_vars, tool_vars, script_vars>>
    \/ ToolingLine /\ UNCHANGED <<rerun_vars, equiv_vars, tool_vars, script_vars>>
    \/ Finish /\ UNCHANGED <<rerun_vars, equiv_vars, tool_vars, script_vars>>
    \/ Construct /\ UNCHANGED <<equiv_vars, tool_vars, script_vars>>
    \/ CallAgain /\ UNCHANGED <<equiv_vars, tool_vars, script_vars>>

SpecRerun == InitRerun /\ [][NextRerun]_<<vars, rerun_vars>>

(***************************************************************************)
(* export_json of log_parser.py: the record built from the parser object   *)
(* (the path, the name and the time of day are left out).                  *)
(***************************************************************************)
\* Variant of export_json whose breakdown leaves out the FATAL level.
export_json_no_fatal ==
    [error_entries |-> entries,
     biomepruner_messages |-> biomepruner_messages,
     summary |->
        [total_errors_warnings |-> Len(entries),
         total_biomepruner_messages |-> Len(biomepruner_messages),
         biomepruner_errors_warnings |->
             Cardinality({k \in 1..Len(entries) : entries[k].is_biomepruner}),
         level_breakdown |->
             [level \in { <<"W","A","R","N">>, <<"E","R","R","O","R">> } |->
                 Cardinality({k \in 1..Len(entries) : entries[k].level = level})]]]

export_json ==
    [error_entries |-> entries,
     biomepruner_messages |-> biomepruner_messages,
     summary |->
        [total_errors_warnings |-> Len(entries),
         total_biomepruner_messages |-> Len(biomepruner_messages),
         biomepruner_errors_warnings |->
             Cardinality({k \in 1..Len(entries) : entries[k].is_biomepruner}),
         level_breakdown |->
             [level \in { <<"W","A","R","N">>, <<"E","R","R","O","R">>,
                          <<"F","A","T","A","L">> } |->
                 Cardinality({k \in 1..Len(entries) : entries[k].level = level})]]]

(***************************************************************************)
(* The three classes parsing the same log file side by side.  One parser   *)
(* object executes at a time; the others wait in `parked`.  The objects    *)
(* take turns, one step of parse_log each, in the order standalone,        *)
(* runner, tooling.                                                        *)
(***************************************************************************)
\* A freshly constructed parser object of class v, about to enter parse_log.
fresh_object(v) ==
    [variant |-> v, lines |-> <<>>, i |-> 0, current_entry |-> None,
     entries |-> <<>>, biomepruner_messages |-> <<>>, pc |-> "start",
     result |-> "none"]

\* The executing parser object as a record.
executing_object ==
    [variant |-> variant, lines |-> lines, i |-> i,
     current_entry |-> current_entry, entries |-> entries,
     biomepruner_messages |-> biomepruner_messages, pc |-> pc,
     result |-> result]

\* The executing object has made its step (or has returned): it is parked
\* and the object that waited longest executes.
Switch ==
    /\ stepped \/ pc = "done"
    /\ parked /= <<>>
    /\ parked' = Append(Tail(parked), executing_object)
    /\ stepped' = FALSE
    /\ variant' = Head(parked).variant
    /\ lines' = Head(parked).lines
    /\ i' = Head(parked).i
    /\ current_entry' = Head(parked).current_entry
    /\ entries' = Head(parked).entries
    /\ biomepruner_messages' = Head(parked).biomepruner_messages
    /\ pc' = Head(parked).pc
    /\ result' = Head(parked).result
    /\ UNCHANGED <<file_state, file_content, rerun_vars, tool_vars, script_vars>>

\* The executing object makes one step and waits for its next turn.
Turn == ~stepped /\ stepped' = TRUE /\ UNCHANGED <<parked, rerun_vars, tool_vars, script_vars>>

InitEquiv ==
    /\ variant = "standalone"
    /\ InitParser(MaxLinesEquiv)
    /\ parked = <<fresh_object("runner"), fresh_object("tooling")>>
    /\ stepped = FALSE
    /\ calls = 1
    /\ snapshot = NoSnapshot
    /\ ToolsIdle

NextEquiv ==
    \/ NotFound /\ Turn
    \/ ReadError /\ Turn
    \/ ReadLines /\ Turn
    \/ StandaloneLine /\ Turn
    \/ RunnerLine /\ Turn
    \/ ToolingLine /\ Turn
    \/ Finish /\ Turn
    \/ Switch

SpecEquiv == InitEquiv /\ [][NextEquiv]_<<vars, equiv_vars>>

(***************************************************************************)
(* The configuration file.  Its content is a TOML document (a table of     *)
(* sections, each a table of keys with TOML literals as values, written    *)
(* with or without comments), text that is no TOML, or the file is         *)
(* missing.                                                                *)
(***************************************************************************)
\* A table without keys.
EmptyTable == [k \in {} |-> "none"]

toml_file(doc, comments) == [kind |-> "toml", comments |-> comments, data |-> doc]

\* The file after open(CONFIG_FILE, 'w') when nothing was written to it.
EmptyFile == toml_file(EmptyTable, FALSE)

GarbageFile == [kind |-> "garbage"]
MissingFile == [kind |-> "missing"]

\* toml.load: the document, or a failure for text that is no TOML.
toml_load(content) ==
    IF content.kind = "toml" THEN [ok |-> TRUE, data |-> content.data]
    ELSE [ok |-> FALSE]

\* toml.dump: the document written anew; comments are not kept.
toml_dump(doc) == toml_file(doc, FALSE)

\* Sections of the sample configurations.
SampleGeneral == [microBiomeThreshold |-> "75", debug |-> "false"]
SampleTesting == [enabled |-> "false", biomeTestsEnabled |-> "true"]

\* Configuration files the tools may find.
ConfigFiles ==
    { toml_file([general |-> SampleGeneral, testing |-> SampleTesting], TRUE),
      toml_file([general |-> SampleGeneral, testing |-> SampleTesting], FALSE),
      toml_file([general |-> SampleGeneral], TRUE),
      toml_file([testing |-> SampleTesting], FALSE),
      EmptyFile, GarbageFile, MissingFile }

(***************************************************************************)
(* AutomatedTestRunner of run_automated_tests.py.  `runner` holds the      *)
(* attributes of the object, the step of run that is executing (pc), the   *)
(* value a return statement inside the try block has fixed (pending) and   *)
(* how run ended (exit_code).                                              *)
(***************************************************************************)
TestModes == {"all", "biome", "performance", "biome+performance"}

\* self.config_backup = None
NoBackup == [kind |-> "none"]

\* self.watcher = None
NoWatcher == [made |-> FALSE]

\* TestResultsWatcher(): the event is not set, last_modified is None (the
\* empty sequence; a time t is <<t>>).
TestResultsWatcher == [results_updated |-> FALSE, last_modified |-> <<>>]

\* analyze_test_results has not been called.
NoAnalysis == [made |-> FALSE]

\* The parser is not used while the tools run.
ParserIdle ==
    /\ variant = "none"
    /\ file_state = "missing"
    /\ file_content = <<>>
    /\ lines = <<>>
    /\ i = 0
    /\ current_entry = None
    /\ entries = <<>>
    /\ biomepruner_messages = <<>>
    /\ pc = "idle"
    /\ result = "none"
    /\ calls = 0
    /\ snapshot = NoSnapshot
    /\ parked = <<>>
    /\ stepped = FALSE

parser_vars == <<vars, rerun_vars, equiv_vars>>

\* AutomatedTestRunner(test_mode) and the entry into run().
InitRunner ==
    /\ ParserIdle
    /\ ScriptsIdle
    /\ \E test_mode \in TestModes :
           runner = [pc |-> "check_dependencies", test_mode |-> test_mode,
                     config_backup |-> NoBackup, observer |-> FALSE,
                     gradle_process |-> FALSE, pending |-> "none",
                     exit_code |-> "none", passed |-> {},
                     analysis |-> NoAnalysis, raised |-> "none",
                     left_at |-> "none", watcher |-> NoWatcher,
                     observing |-> FALSE, notified_at |-> "none"]
    /\ config_file \in ConfigFiles
    /\ config_writes = <<>>
    /\ files = <<>>
    /\ cm = [now |-> 0]

\* The step returned True (or, for a step without a result, returned): run
\* goes on with the next step.  `passed` remembers the steps that did so.
step_to(r, next) == [r EXCEPT !.pc = next, !.passed = @ \cup {r.pc}]

\* `return code` inside the try block: the finally block runs cleanup first.
\* `left_at` remembers the step at which the try block was left.
try_return(r, code) ==
    [r EXCEPT !.pending = code, !.pc = "cleanup_observer", !.left_at = r.pc]

\* if not self.check_dependencies(): return 2
CheckDependencies ==
    /\ runner.pc = "check_dependencies"
    /\ \E HAS_DEPS \in BOOLEAN :
           runner' = IF HAS_DEPS THEN step_to(runner, "check_paths")
                     ELSE try_return(runner, "2")
    /\ UNCHANGED <<config_file, config_writes, parser_vars, cm_vars, script_vars>>

\* if not self.check_paths(): return 2
CheckPaths ==
    /\ runner.pc = "check_paths"
    /\ \E instance_and_gradlew_exist \in BOOLEAN :
           runner' = IF instance_and_gradlew_exist /\ config_file /= MissingFile
                     THEN step_to(runner, "backup_config")
                     ELSE try_return(runner, "2")
    /\ UNCHANGED <<config_file, config_writes, parser_vars, cm_vars, script_vars>>

\* backup_config: self.config_backup = f.read(), False when the read fails.
BackupConfig ==
    /\ runner.pc = "backup_config"
    /\ \E read_ok \in BOOLEAN :
           runner' = IF read_ok /\ config_file /= MissingFile
                     THEN [step_to(runner, "enable_automated_testing")
                              EXCEPT !.config_backup = config_file]
                     ELSE try_return(runner, "2")
    /\ UNCHANGED <<config_file, config_writes, parser_vars, cm_vars, script_vars>>

\* Variant of testing_flags that enables both test kinds in every mode.
testing_flags_all(test_mode) ==
    [enabled                 |-> "true",
     automatedTestingEnabled |-> "true",
     debug                   |-> "true",
     debugMessages           |-> "true",
     biomeTestsEnabled       |-> "true",
     performanceTestsEnabled |-> "true",
     performanceLogging      |-> "true"]

\* The flags enable_automated_testing sets in the testing section.
testing_flags(test_mode) ==
    [enabled                 |-> "true",
     automatedTestingEnabled |-> "true",
     debug                   |-> "true",
     debugMessages           |-> "true",
     biomeTestsEnabled       |-> IF test_mode = "performance" THEN "false" ELSE "true",
     performanceTestsEnabled |-> IF test_mode = "biome" THEN "false" ELSE "true",
     performanceLogging      |-> IF test_mode = "biome" THEN "false" ELSE "true"]

\* The document enable_automated_testing dumps: sections general and testing
\* exist and the flags are set; everything else is as loaded.
enabled_config(doc, test_mode) ==
    LET testing == IF "testing" \in DOMAIN doc THEN doc["testing"] ELSE EmptyTable
        flags   == testing_flags(test_mode)
    IN  [s \in DOMAIN doc \cup {"general", "testing"} |->
            IF s = "testing"
            THEN [k \in DOMAIN testing \cup DOMAIN flags |->
                     IF k \in DOMAIN flags THEN flags[k] ELSE testing[k]]
            ELSE IF s \in DOMAIN doc THEN doc[s] ELSE EmptyTable]

\* A write to CONFIG_FILE as it is remembered in config_writes.
write_record(by, ok, content) == [by |-> by, ok |-> ok, content |-> content]

\* enable_automated_testing: load, set the flags, dump; False on any failure.
EnableAutomatedTesting ==
    /\ runner.pc = "enable_automated_testing"
    /\ \E io \in {"ok", "read_error", "write_error"} :
           LET loaded == toml_load(config_file)
           IN  IF io = "read_error" \/ ~loaded.ok
               THEN /\ runner' = try_return(runner, "2")
                    /\ UNCHANGED <<config_file, config_writes>>
               ELSE IF io = "write_error"
               THEN /\ runner' = try_return(runner, "2")
                    /\ config_file' = EmptyFile
                    /\ config_writes' = Append(config_writes,
                           write_record("enable_automated_testing", FALSE, EmptyFile))
               ELSE /\ runner' = step_to(runner, "start_prism_launcher")
                    /\ config_file' =
                           toml_dump(enabled_config(loaded.data, runner.test_mode))
                    /\ config_writes' = Append(config_writes,
                           write_record("enable_automated_testing", TRUE,
                               toml_dump(enabled_config(loaded.data, runner.test_mode))))
    /\ UNCHANGED <<parser_vars, cm_vars, script_vars>>

\* What run does with the boolean result of a step: go on, or `return code`.
bool_step(r, ok, next, code) == IF ok THEN step_to(r, next) ELSE try_return(r, code)

\* if not self.start_prism_launcher(): return 2
StartPrismLauncher ==
    /\ runner.pc = "start_prism_launcher"
    /\ \E ok \in BOOLEAN :
           runner' = bool_step(runner, ok, "setup_file_watcher", "2")
    /\ UNCHANGED <<config_file, config_writes, parser_vars, cm_vars, script_vars>>

\* setup_file_watcher: the watcher is made, the observer is created,
\* scheduled and started; when that fails the attributes may or may not have
\* been assigned already.  `observing` says that the observer thread runs.
SetupFileWatcher ==
    /\ runner.pc = "setup_file_watcher"
    /\ \E outcome \in {"started", "observer_failed", "watcher_failed"} :
           runner' =
               CASE outcome = "started" ->
                        [step_to(runner, "cleanup_old_results")
                            EXCEPT !.watcher = TestResultsWatcher,
                                   !.observer = TRUE, !.observing = TRUE]
                 [] outcome = "observer_failed" ->
                        [try_return(runner, "2")
                            EXCEPT !.watcher = TestResultsWatcher, !.observer = TRUE]
                 [] OTHER -> try_return(runner, "2")
    /\ UNCHANGED <<config_file, config_writes, parser_vars, cm_vars, script_vars>>

\* Latest time the clock shows while the observer runs.
MaxTime == 3

\* File system events the observer delivers: the name of the path and
\* whether it is a directory.
Events ==
    [is_directory : BOOLEAN, name : {"biomepruner_test_results.json", "latest.log"}]

\* Variant of on_modified that sets the event only on a repeated modification.
on_modified_repeated(w, event, current_time) ==
    IF event.is_directory THEN w
    ELSE IF event.name = "biomepruner_test_results.json"
    THEN IF w.last_modified /= <<>> /\ current_time - w.last_modified[1] > 2
         THEN [w EXCEPT !.last_modified = <<current_time>>, !.results_updated = TRUE]
         ELSE [w EXCEPT !.last_modified = <<current_time>>]
    ELSE w

\* TestResultsWatcher.on_modified(event), with current_time = time.time()
on_modified(w, event, current_time) ==
    IF event.is_directory THEN w
    ELSE IF event.name = "biomepruner_test_results.json"
    THEN IF w.last_modified = <<>> \/ current_time - w.last_modified[1] > 2
         THEN [w EXCEPT !.last_modified = <<current_time>>, !.results_updated = TRUE]
         ELSE w
    ELSE w

\* The observer thread calls on_modified, at any moment while it runs.
\* `notified_at` remembers where run was when a modification of a file (not
\* a directory) named biomepruner_test_results.json was first delivered.
OnModified ==
    /\ runner.observing
    /\ \E event \in Events, current_time \in 0..MaxTime :
           /\ runner.watcher.last_modified /= <<>> =>
                  current_time >= runner.watcher.last_modified[1]
           /\ runner' =
                  [runner EXCEPT
                      !.watcher = on_modified(@, event, current_time),
                      !.notified_at =
                          IF /\ @ = "none"
                             /\ ~event.is_directory
                             /\ event.name = "biomepruner_test_results.json"
                          THEN runner.pc ELSE @]
    /\ UNCHANGED <<config_file, config_writes, parser_vars, cm_vars, script_vars>>

\* self.cleanup_old_results()   (its result is not used)
CleanupOldResults ==
    /\ runner.pc = "cleanup_old_results"
    /\ runner' = step_to(runner, "launch_gradle_build")
    /\ UNCHANGED <<config_file, config_writes, parser_vars, cm_vars, script_vars>>

\* launch_gradle_build: Popen and the output thread; False on any failure.
LaunchGradleBuild ==
    /\ runner.pc = "launch_gradle_build"
    /\ \E outcome \in {"launched", "thread_failed", "popen_failed"} :
           runner' =
               CASE outcome = "launched" ->
                        [step_to(runner, "wait_for_minecraft_start")
                            EXCEPT !.gradle_process = TRUE]
                 [] outcome = "thread_failed" ->
                        [try_return(runner, "3") EXCEPT !.gradle_process = TRUE]
                 [] OTHER -> try_return(runner, "3")
    /\ UNCHANGED <<config_file, config_writes, parser_vars, cm_vars, script_vars>>

\* if not self.wait_for_minecraft_start(): return 3
WaitForMinecraftStart ==
    /\ runner.pc = "wait_for_minecraft_start"
    /\ \E ok \in BOOLEAN :
           runner' = bool_step(runner, ok, "wait_for_test_completion", "3")
    /\ UNCHANGED <<config_file, config_writes, parser_vars, cm_vars, script_vars>>

\* wait_for_test_completion: results_updated.wait(timeout) returns at once
\* when the event is set, and False at the timeout when it is not set.
\* if not self.wait_for_test_completion(): return 1
WaitForTestCompletion ==
    /\ runner.pc = "wait_for_test_completion"
    /\ LET completed == runner.watcher.results_updated
       IN  runner' = bool_step(runner, completed, "shutdown_minecraft", "1")
    /\ UNCHANGED <<config_file, config_writes, parser_vars, cm_vars, script_vars>>

\* self.shutdown_minecraft()    (its result is not used)
ShutdownMinecraft ==
    /\ runner.pc = "shutdown_minecraft"
    /\ runner' = step_to(runner, "collect_test_artifacts")
    /\ UNCHANGED <<config_file, config_writes, parser_vars, cm_vars, script_vars>>

\* if not self.collect_test_artifacts(): return 1
CollectTestArtifacts ==
    /\ runner.pc = "collect_test_artifacts"
    /\ \E ok \in BOOLEAN :
           runner' = bool_step(runner, ok, "analyze_test_results", "1")
    /\ UNCHANGED <<config_file, config_writes, parser_vars, cm_vars, script_vars>>

\* Variant of verdict that does not look at the performance test.
verdict_biome_only(test_mode, success, rate_is_one, performance_test_completed) ==
    IF success /\ (test_mode = "performance" \/ rate_is_one) THEN "0" ELSE "1"

\* The value run returns for an analysis.
verdict(test_mode, success, rate_is_one, performance_test_completed) ==
    LET biome_success ==
            IF test_mode \in {"all", "biome", "biome+performance"}
            THEN rate_is_one ELSE TRUE
        performance_success ==
            IF test_mode \in {"all", "performance", "biome+performance"}
            THEN performance_test_completed ELSE TRUE
    IN  IF success
        THEN IF biome_success /\ performance_success THEN "0" ELSE "1"
        ELSE "1"

\* Largest number of biome tests a results file reports.
MaxTests == 2

\* dict.get(key, default)
get(d, key, default) == IF key \in DOMAIN d THEN d[key] ELSE default

\* The 'summary' objects of a results file: without keys, or with the three
\* keys analyze_test_results reads.
Summaries ==
    {EmptyTable} \cup
    { [totalBiomeTests |-> t, passedBiomeTests |-> p, performanceTestCompleted |-> c] :
          t \in 0..MaxTests, p \in 0..MaxTests, c \in BOOLEAN }

\* test_output/results/test_results.json as analyze_test_results finds it.
ResultsFiles ==
    {[kind |-> "missing"], [kind |-> "garbage"]} \cup
    { [kind |-> "json", summary |-> s] : s \in Summaries }

\* A quotient of two integers, kept as the pair; 1.0 and 0.0.
quotient(a, b) == [num |-> a, den |-> b]
One == quotient(1, 1)
Zero == quotient(0, 1)

\* analysis['success_rate'] == 1.0
equals_one(rate) == rate.num = rate.den

\* Variant of success_rate in which no tests count as all tests passed.
success_rate_vacuous(test_mode, total, passed_tests) ==
    IF total > 0 THEN quotient(passed_tests, total) ELSE One

\* if total > 0: passed / total   else: 1.0 if test_mode in ['performance'] else 0.0
success_rate(test_mode, total, passed_tests) ==
    IF total > 0 THEN quotient(passed_tests, total)
    ELSE IF test_mode \in {"performance"} THEN One ELSE Zero

\* analyze_test_results: the analysis of the collected results file.
analyze_test_results(test_mode, results_file) ==
    IF results_file.kind = "missing"
    THEN [success |-> FALSE, error |-> "No test results file found"]
    ELSE IF results_file.kind = "garbage"
    THEN [success |-> FALSE, error |-> "Failed to analyze results"]
    ELSE LET summary == results_file.summary
             total   == get(summary, "totalBiomeTests", 0)
             passed_tests == get(summary, "passedBiomeTests", 0)
         IN  [success |-> TRUE,
              total_biome_tests |-> total,
              passed_biome_tests |-> passed_tests,
              performance_test_completed |->
                  get(summary, "performanceTestCompleted", FALSE),
              success_rate |-> success_rate(test_mode, total, passed_tests)]

\* The value run returns for the analysis.
exit_code_of(test_mode, analysis) ==
    IF analysis.success
    THEN verdict(test_mode, TRUE, equals_one(analysis.success_rate),
                 analysis.performance_test_completed)
    ELSE verdict(test_mode, FALSE, FALSE, FALSE)

\* analysis = self.analyze_test_results() and the report: return 0 or 1.
AnalyzeTestResults ==
    /\ runner.pc = "analyze_test_results"
    /\ \E results_file \in ResultsFiles :
           LET analysis == analyze_test_results(runner.test_mode, results_file)
           IN  runner' = [try_return(runner, exit_code_of(runner.test_mode, analysis))
                             EXCEPT !.analysis = analysis]
    /\ UNCHANGED <<config_file, config_writes, parser_vars, cm_vars, script_vars>>

\* The steps inside the try block of run.
TrySteps ==
    {"check_dependencies", "check_paths", "backup_config",
     "enable_automated_testing", "start_prism_launcher", "setup_file_watcher",
     "cleanup_old_results", "launch_gradle_build", "wait_for_minecraft_start",
     "wait_for_test_completion", "shutdown_minecraft", "collect_test_artifacts",
     "analyze_test_results"}

\* The steps of the try block that do not catch the exceptions raised in them.
UnguardedSteps ==
    {"check_paths", "start_prism_launcher", "cleanup_old_results",
     "wait_for_minecraft_start", "wait_for_test_completion",
     "shutdown_minecraft", "collect_test_artifacts", "analyze_test_results"}

\* except KeyboardInterrupt: return 1     (Ctrl-C during any step of the try)
Interrupted ==
    /\ runner.pc \in TrySteps
    /\ runner' = [try_return(runner, "1") EXCEPT !.raised = "KeyboardInterrupt"]
    /\ UNCHANGED <<config_file, config_writes, parser_vars, cm_vars, script_vars>>

\* except Exception: return 3
UnexpectedError ==
    /\ runner.pc \in UnguardedSteps
    /\ runner' = [try_return(runner, "3") EXCEPT !.raised = "Exception"]
    /\ UNCHANGED <<config_file, config_writes, parser_vars, cm_vars, script_vars>>

(***************************************************************************)
(* cleanup, called in the finally block of run.                            *)
(***************************************************************************)
\* if self.observer: stop and join, any Exception is passed over
CleanupObserver ==
    /\ runner.pc = "cleanup_observer"
    /\ runner' = [step_to(runner, "cleanup_gradle") EXCEPT !.observing = FALSE]
    /\ UNCHANGED <<config_file, config_writes, parser_vars, cm_vars, script_vars>>

\* if self.gradle_process: terminate, wait, kill; any Exception is passed over
CleanupGradle ==
    /\ runner.pc = "cleanup_gradle"
    /\ runner' = step_to(runner, "restore_config")
    /\ UNCHANGED <<config_file, config_writes, parser_vars, cm_vars, script_vars>>

\* Variant of restore_writes without the test for None.
restore_writes_always(backup) == TRUE

\* restore_config: if self.config_backup is None: return True
restore_writes(backup) == backup /= NoBackup

\* cleanup has finished and run returns the pending value.
finished(r) == [r EXCEPT !.pc = "returned", !.exit_code = r.pending]

\* restore_config, the last statement of cleanup: the backup is written to
\* CONFIG_FILE; a failure of open or of write is reported and passed over.
RestoreConfig ==
    /\ runner.pc = "restore_config"
    /\ runner' = finished(runner)
    /\ IF restore_writes(runner.config_backup)
       THEN \E io \in {"ok", "open_error", "write_error"} :
               /\ config_file' =
                      CASE io = "ok" -> runner.config_backup
                        [] io = "open_error" -> config_file
                        [] OTHER -> EmptyFile
               /\ config_writes' = Append(config_writes,
                      write_record("restore_config", io = "ok", config_file'))
       ELSE UNCHANGED <<config_file, config_writes>>
    /\ UNCHANGED <<parser_vars, cm_vars, script_vars>>

\* Ctrl-C while cleanup runs: KeyboardInterrupt is no Exception, none of the
\* handlers in cleanup catches it, and it leaves cleanup, the finally block
\* and run; the pending return value is dropped.
InterruptedInCleanup ==
    /\ runner.pc \in {"cleanup_observer", "cleanup_gradle", "restore_config"}
    /\ runner' = [runner EXCEPT !.pc = "returned", !.exit_code = "KeyboardInterrupt"]
    /\ UNCHANGED <<config_file, config_writes, parser_vars, cm_vars, script_vars>>

NextRunner ==
    \/ CheckDependencies
    \/ CheckPaths
    \/ BackupConfig
    \/ EnableAutomatedTesting
    \/ StartPrismLauncher
    \/ SetupFileWatcher
    \/ OnModified
    \/ CleanupOldResults
    \/ LaunchGradleBuild
    \/ WaitForMinecraftStart
    \/ WaitForTestCompletion
    \/ ShutdownMinecraft
    \/ CollectTestArtifacts
    \/ AnalyzeTestResults
    \/ Interrupted
    \/ UnexpectedError
    \/ CleanupObserver
    \/ CleanupGradle
    \/ RestoreConfig
    \/ InterruptedInCleanup

SpecRunner == InitRunner /\ [][NextRunner]_tool_vars

(***************************************************************************)
(* collect_test_artifacts of run_automated_tests.py and the results        *)
(* directory test_output/results.  A directory is a function from the      *)
(* names of its files to their modification times (st_mtime).              *)
(***************************************************************************)
MAX_TEST_RESULT_FILES == 5

\* Timestamped files that earlier runs left in the results directory, and
\* the latest modification time a file has.
MaxOldFiles == 6
MaxMtime == 2

\* results_dir / "test_results.json" and results_dir / f"test_results_{timestamp}.json"
file_name(sep, stamp) ==
    [stem |-> "test_results", sep |-> sep, stamp |-> stamp, ext |-> ".json"]
PlainName == file_name("", 0)
timestamped(k) == file_name("_", k)

\* Path.match of the pattern "test_results_*.json"
matches_pattern(name) ==
    name.stem = "test_results" /\ name.sep = "_" /\ name.ext = ".json"

\* The matching names by ascending timestamp.
RECURSIVE ascending(_)
ascending(names) ==
    IF names = {} THEN <<>>
    ELSE LET first == CHOOSE n \in names : \A m \in names : n.stamp <= m.stamp
         IN  <<first>> \o ascending(names \ {first})

reversed(fs) == [j \in 1..Len(fs) |-> fs[Len(fs) + 1 - j]]

\* list(results_dir.glob(pattern)): the matching files, in the order in
\* which the file system lists them.
glob(dir, order) ==
    LET found == ascending({n \in DOMAIN dir : matches_pattern(n)})
    IN  IF order = "ascending" THEN found ELSE reversed(found)

\* Variant of insert_newest_first that puts the oldest files first.
RECURSIVE insert_oldest_first(_, _, _)
insert_oldest_first(sorted, f, dir) ==
    IF sorted = <<>> THEN <<f>>
    ELSE IF dir[Head(sorted)] <= dir[f]
    THEN <<Head(sorted)>> \o insert_oldest_first(Tail(sorted), f, dir)
    ELSE <<f>> \o sorted

\* One step of sort(key=st_mtime, reverse=True): f goes behind every file
\* that is not older (the sort is stable).
RECURSIVE insert_newest_first(_, _, _)
insert_newest_first(sorted, f, dir) ==
    IF sorted = <<>> THEN <<f>>
    ELSE IF dir[Head(sorted)] >= dir[f]
    THEN <<Head(sorted)>> \o insert_newest_first(Tail(sorted), f, dir)
    ELSE <<f>> \o sorted

\* timestamped_files.sort(key=lambda f: f.stat().st_mtime, reverse=True)
RECURSIVE sort_newest_first(_, _)
sort_newest_first(fs, dir) ==
    IF fs = <<>> THEN <<>>
    ELSE insert_newest_first(sort_newest_first(SubSeq(fs, 1, Len(fs) - 1), dir),
                             fs[Len(fs)], dir)

\* timestamped_files[MAX_TEST_RESULT_FILES:] after the sort; nothing when
\* there are no more than MAX_TEST_RESULT_FILES files.
files_to_delete(dir, order) ==
    LET timestamped_files == glob(dir, order)
    IN  IF Len(timestamped_files) <= MAX_TEST_RESULT_FILES THEN <<>>
        ELSE LET sorted == sort_newest_first(timestamped_files, dir)
             IN  SubSeq(sorted, MAX_TEST_RESULT_FILES + 1, Len(sorted))

\* The directory without the files unlink removed.
unlinked(dir, names) == [n \in DOMAIN dir \ names |-> dir[n]]

\* The directory with file n written (shutil.copy2 keeps the source's mtime).
copy2(dir, n, mtime) == [m \in DOMAIN dir \cup {n} |-> IF m = n THEN mtime ELSE dir[m]]

\* Results directories an earlier run may have left: n timestamped files.
OldDirs ==
    UNION { { [n \in {timestamped(k) : k \in 1..count} |-> mtimes[n.stamp]] :
                 mtimes \in [1..count -> 1..MaxMtime] } :
            count \in 0..MaxOldFiles }

InitCollect ==
    /\ ParserIdle
    /\ runner = [pc |-> "idle"]
    /\ config_file = [kind |-> "none"]
    /\ config_writes = <<>>
    /\ files = <<>>
    /\ cm = [now |-> 0]
    /\ \E dir \in OldDirs :
           artifacts = [pc |-> "copy_results", dir |-> dir, before |-> dir,
                        cleaned |-> FALSE,
                        unlink_failed |-> {}, artifacts_collected |-> 0,
                        result |-> "none"]
    /\ builder = [pc |-> "idle"]

\* collect_test_artifacts, first part: RESULTS_FILE (<<>> when it does not
\* exist, else its modification time) is copied to test_results.json and to a timestamped file (whose second may be that of
\* the newest file already there); a failing copy ends this part.
CopyResults ==
    /\ artifacts.pc = "copy_results"
    /\ \E results_file \in {<<>>} \cup {<<mtime>> : mtime \in 1..MaxMtime},
          copies \in 0..2,
          same_second \in BOOLEAN :
           LET count  == Cardinality(DOMAIN artifacts.dir)
               stamp  == IF same_second /\ count > 0 THEN count ELSE count + 1
               first  == copy2(artifacts.dir, PlainName, results_file[1])
               second == copy2(first, timestamped(stamp), results_file[1])
           IN  artifacts' =
                   IF results_file = <<>>
                   THEN [artifacts EXCEPT !.pc = "copy_logs"]
                   ELSE CASE copies = 0 -> [artifacts EXCEPT !.pc = "copy_logs"]
                          [] copies = 1 ->
                                [artifacts EXCEPT !.pc = "copy_logs", !.dir = first,
                                                  !.artifacts_collected = 1]
                          [] OTHER ->
                                [artifacts EXCEPT !.pc = "cleanup_old_test_result_files",
                                                  !.dir = second,
                                                  !.artifacts_collected = 1]
    /\ UNCHANGED <<builder, tool_vars, parser_vars>>

\* cleanup_old_test_result_files: the files behind the first
\* MAX_TEST_RESULT_FILES are unlinked; an unlink that fails is passed over.
CleanupOldTestResultFiles ==
    /\ artifacts.pc = "cleanup_old_test_result_files"
    /\ \E order \in {"ascending", "descending"} :
           LET doomed  == files_to_delete(artifacts.dir, order)
               targets == {doomed[j] : j \in 1..Len(doomed)}
           IN  \E failing \in SUBSET targets :
                   artifacts' = [artifacts EXCEPT
                                    !.pc = "copy_logs",
                                    !.cleaned = TRUE,
                                    !.before = artifacts.dir,
                                    !.unlink_failed = failing,
                                    !.dir = unlinked(artifacts.dir, targets \ failing)]
    /\ UNCHANGED <<builder, tool_vars, parser_vars>>

\* collect_test_artifacts, second part: every log found and every report
\* written counts; return artifacts_collected > 0.
CopyLogs ==
    /\ artifacts.pc = "copy_logs"
    /\ \E logs_and_reports \in 0..2 :
           LET total == artifacts.artifacts_collected + logs_and_reports
           IN  artifacts' = [artifacts EXCEPT
                                !.pc = "returned",
                                !.artifacts_collected = total,
                                !.result = IF total > 0 THEN "True" ELSE "False"]
    /\ UNCHANGED <<builder, tool_vars, parser_vars>>

NextCollect ==
    \/ CopyResults
    \/ CleanupOldTestResultFiles
    \/ CopyLogs

SpecCollect == InitCollect /\ [][NextCollect]_script_vars

(***************************************************************************)
(* MinecraftModBuilder of build_script.py.  `builder` holds the platform,  *)
(* the Gradle wrapper found at construction, the place in run and          *)
(* run_build (pc), the return codes of the Gradle invocations so far       *)
(* (exits), what run_build returned, and how run ended: its exit code or   *)
(* the exception it raised, the error list and the content of              *)
(* build_errors.json.  The output of a process is a sequence of            *)
(* paragraphs, each named by what the patterns of the parsers find in it.  *)
(***************************************************************************)
\* Paragraphs a stream of a Gradle process holds at most.
MaxOutput == 1

Paragraphs == {"java_error", "build_file_error", "task_failed", "shell_error", "text"}

RECURSIVE OutputsUpTo(_)
OutputsUpTo(n) ==
    IF n = 0 THEN {<<>>}
    ELSE LET shorter == OutputsUpTo(n - 1)
         IN  shorter \cup {Append(o, para) : o \in {x \in shorter : Len(x) = n - 1},
                                             para \in Paragraphs}

\* subprocess.run: a completed process, or the exception raised.
Completed == [kind : {"completed"}, returncode : {0, 1},
              stdout : OutputsUpTo(MaxOutput), stderr : OutputsUpTo(MaxOutput)]
SubprocessResults ==
    Completed \cup {[kind |-> "TimeoutExpired"], [kind |-> "OSError"]}

\* return result.returncode == 0, result.stdout, result.stderr
triple(success, stdout, stderr) ==
    [kind |-> "tuple", success |-> success, stdout |-> stdout, stderr |-> stderr]
returned_of(completed) == triple(completed.returncode = 0, completed.stdout, completed.stderr)

\* run_build has not returned; run_build ended without a return statement.
NotReturned == [kind |-> "pending"]
ReturnedNone == [kind |-> "None"]

\* "/c:" in result.stderr
shell_interpretation_error(stderr) ==
    \E j \in 1..Len(stderr) : stderr[j] = "shell_error"

\* find_gradle_wrapper: the wrapper of the project if it exists, else the
\* gradle on the PATH.
find_gradle_wrapper(platform, wrapper_exists) ==
    IF platform = "win"
    THEN IF wrapper_exists THEN "gradlew.bat" ELSE "gradle.bat"
    ELSE IF wrapper_exists THEN "gradlew" ELSE "gradle"

\* self.gradle_wrapper.endswith('.bat')
endswith_bat(wrapper) == wrapper \in {"gradlew.bat", "gradle.bat"}

NoReport == [written |-> FALSE]

InitBuild ==
    /\ ParserIdle
    /\ runner = [pc |-> "idle"]
    /\ config_file = [kind |-> "none"]
    /\ config_writes = <<>>
    /\ files = <<>>
    /\ cm = [now |-> 0]
    /\ artifacts = [pc |-> "idle"]
    /\ \E platform \in {"win", "unix"}, wrapper_exists \in BOOLEAN :
           builder = [pc |-> "direct", platform |-> platform,
                      gradle_wrapper |-> find_gradle_wrapper(platform, wrapper_exists),
                      exits |-> {}, returned |-> NotReturned,
                      exit_code |-> "none", raised |-> "none",
                      all_errors |-> <<>>, found |-> 0, json |-> NoReport]

\* The return codes seen after this completed.
with_exit(b, completed) ==
    IF completed.kind = "completed" THEN b.exits \cup {completed.returncode} ELSE b.exits

\* run_build leaves with this value.
returns(b, value) == [b EXCEPT !.pc = "run", !.returned = value]

\* run_build, first invocation: on Windows the direct execution, whose
\* failure of any kind leads to cmd.exe; elsewhere the only invocation,
\* whose timeout is reported and whose other exceptions lead to the
\* fallback.
DirectExecution ==
    /\ builder.pc = "direct"
    /\ \E completed \in SubprocessResults :
           LET b == [builder EXCEPT !.exits = with_exit(builder, completed)]
           IN  builder' =
                   IF builder.platform = "win"
                   THEN IF /\ completed.kind = "completed"
                           /\ ~(completed.returncode /= 0
                                /\ shell_interpretation_error(completed.stderr))
                        THEN returns(b, returned_of(completed))
                        ELSE [b EXCEPT !.pc = "cmd_exe"]
                   ELSE CASE completed.kind = "completed" -> returns(b, returned_of(completed))
                          [] completed.kind = "TimeoutExpired" ->
                                returns(b, triple(FALSE, <<>>, <<"text">>))
                          [] OTHER -> [b EXCEPT !.pc = "fallback"]
    /\ UNCHANGED <<artifacts, tool_vars, parser_vars>>

\* run_build, second invocation on Windows: cmd.exe /c.
CmdExeExecution ==
    /\ builder.pc = "cmd_exe"
    /\ \E completed \in SubprocessResults :
           LET b == [builder EXCEPT !.exits = with_exit(builder, completed)]
           IN  builder' =
                   CASE completed.kind = "completed" -> returns(b, returned_of(completed))
                     [] completed.kind = "TimeoutExpired" ->
                           returns(b, triple(FALSE, <<>>, <<"text">>))
                     [] OTHER -> [b EXCEPT !.pc = "fallback"]
    /\ UNCHANGED <<artifacts, tool_vars, parser_vars>>

\* run_build, the handler of the other exceptions: on Windows with a .bat
\* wrapper a temporary batch file is run (a failure to write it, to run it
\* or to unlink it is reported); otherwise the handler does nothing and
\* run_build ends without a return statement.
FallbackExecution ==
    /\ builder.pc = "fallback"
    /\ \E completed \in SubprocessResults, temp_ok \in BOOLEAN, unlink_ok \in BOOLEAN :
           builder' =
               IF builder.platform = "win" /\ endswith_bat(builder.gradle_wrapper)
               THEN IF ~temp_ok
                    THEN returns(builder, triple(FALSE, <<>>, <<"text">>))
                    ELSE LET b == [builder EXCEPT !.exits = with_exit(builder, completed)]
                         IN  IF completed.kind = "completed" /\ unlink_ok
                             THEN returns(b, returned_of(completed))
                             ELSE returns(b, triple(FALSE, <<>>, <<"text">>))
               ELSE returns(builder, ReturnedNone)
    /\ UNCHANGED <<artifacts, tool_vars, parser_vars>>

\* The paragraphs of the output that are of one of these kinds.
RECURSIVE matches(_, _)
matches(output, kinds) ==
    IF output = <<>> THEN <<>>
    ELSE (IF Head(output) \in kinds THEN <<Head(output)>> ELSE <<>>)
             \o matches(Tail(output), kinds)

error_of(type, para) == [type |-> type, message |-> para]

\* parse_java_compilation_errors: one error for every match of the pattern.
parse_java_compilation_errors(output) ==
    LET found == matches(output, {"java_error"})
    IN  [j \in 1..Len(found) |-> error_of("compilation", found[j])]

\* parse_gradle_errors: the matches of the build file pattern, then those of
\* the failed task pattern.
parse_gradle_errors(output) ==
    LET found == matches(output, {"build_file_error"}) \o matches(output, {"task_failed"})
    IN  [j \in 1..Len(found) |-> error_of("gradle", found[j])]

\* The errors run reports for a failed build: what the two parsers find in
\* stdout + "\n" + stderr, or one general error with the stripped stderr,
\* else the stripped stdout, else a fixed text.
errors_of(stdout, stderr) ==
    LET full_output == stdout \o stderr
        parsed == parse_java_compilation_errors(full_output)
                      \o parse_gradle_errors(full_output)
        error_content == IF stderr /= <<>> THEN stderr
                         ELSE IF stdout /= <<>> THEN stdout
                         ELSE <<"Build failed with no output">>
    IN  IF parsed /= <<>> THEN parsed
        ELSE <<error_of("general", error_content)>>

\* The content of build_errors.json.
build_errors_json(success, errors) ==
    [written |-> TRUE, success |-> success, error_count |-> Len(errors),
     errors |-> errors]

\* run after run_build: the triple is unpacked (None cannot be); a success
\* is recorded and 0 returned; for a failure the errors are parsed, the
\* report and build_errors.json are saved and 1 is returned.  A file that
\* cannot be written is warned about only.
Run ==
    /\ builder.pc = "run"
    /\ \E json_ok \in BOOLEAN :
           builder' =
               IF builder.returned.kind /= "tuple"
               THEN [builder EXCEPT !.pc = "done", !.raised = "TypeError"]
               ELSE IF builder.returned.success
               THEN [builder EXCEPT
                        !.pc = "done", !.exit_code = "0",
                        !.json = IF json_ok THEN build_errors_json(TRUE, <<>>) ELSE @]
               ELSE LET stdout == builder.returned.stdout
                        stderr == builder.returned.stderr
                        all_errors == errors_of(stdout, stderr)
                    IN  [builder EXCEPT
                            !.pc = "done", !.exit_code = "1",
                            !.all_errors = all_errors,
                            !.found = Len(parse_java_compilation_errors(stdout \o stderr))
                                      + Len(parse_gradle_errors(stdout \o stderr)),
                            !.json = IF json_ok
                                     THEN build_errors_json(FALSE, all_errors) ELSE @]
    /\ UNCHANGED <<artifacts, tool_vars, parser_vars>>

NextBuild ==
    \/ DirectExecution
    \/ CmdExeExecution
    \/ FallbackExecution
    \/ Run

SpecBuild == InitBuild /\ [][NextBuild]_script_vars

(***************************************************************************)
(* config_manager.py.  Each command is one run of the script: it loads the *)
(* configuration file anew, so that the only state kept between commands   *)
(* is on disk: the configuration file and the backup files.  `cm` holds    *)
(* the clock that names the backups (it has a resolution of one second),   *)
(* the result of the last command and whether a file operation failed in   *)
(* it.                                                                     *)
(***************************************************************************)
PROTECTED_SECTIONS == {"testing"}
VALID_SECTIONS == {"general", "biome_blacklist", "performance", "heightmap"}

\* Arguments the commands are tried with.
SectionArgs == {"general", "testing", "performance", "client"}
KeyArgs == {"microBiomeThreshold", "debug", "enabled", "missingKey",
            "mode", "scale", "biomes"}
ValueStrings == {"ON", "10", "abc"}

\* TOML literals: booleans, integers, floats, lists, and strings in quotes.
type_of(v) ==
    CASE v \in {"true", "false"} -> "bool"
      [] v \in {"75", "10"} -> "int"
      [] v \in {"10.0", "1.5"} -> "float"
      [] v \in {"['ON']", "['10']", "['abc']"} -> "list"
      [] OTHER -> "str"

\* value_str.lower()
lower_str(value_str) == IF value_str = "ON" THEN "on" ELSE value_str

ValueError == [ok |-> FALSE]
parsed_as(v) == [ok |-> TRUE, value |-> v]

\* The type detection parse_value falls back to.
auto_detect(value_str) ==
    IF lower_str(value_str) \in {"true", "false"} THEN parsed_as(lower_str(value_str))
    ELSE IF value_str = "10" THEN parsed_as("10")
    ELSE IF value_str = "ON" THEN parsed_as("'ON'")
    ELSE parsed_as("'abc'")

\* parse_value(value_str, current_value)
parse_value(value_str, current_value) ==
    CASE type_of(current_value) = "bool" ->
             IF lower_str(value_str) \in {"true", "1", "yes", "on"}
             THEN parsed_as("true")
             ELSE IF lower_str(value_str) \in {"false", "0", "no", "off"}
             THEN parsed_as("false")
             ELSE ValueError
      [] type_of(current_value) = "int" ->
             IF value_str = "10" THEN parsed_as("10") ELSE ValueError
      [] type_of(current_value) = "float" ->
             IF value_str = "10" THEN parsed_as("10.0") ELSE ValueError
      [] type_of(current_value) = "list" ->
             IF value_str = "ON" THEN parsed_as("['ON']")
             ELSE IF value_str = "10" THEN parsed_as("['10']")
             ELSE parsed_as("['abc']")
      [] OTHER -> auto_detect(value_str)

\* Variant of validate_section that lets the protected sections through.
validate_section_unprotected(section) ==
    section \in VALID_SECTIONS \cup PROTECTED_SECTIONS

\* validate_section(section)
validate_section(section) ==
    section \notin PROTECTED_SECTIONS /\ section \in VALID_SECTIONS

\* load_config(): None for a missing file or a file that is no TOML.
load_config == toml_load(config_file)

\* The outcome of a command that changes nothing on disk.
reports(ok) ==
    /\ cm' = [cm EXCEPT !.result = IF ok THEN "True" ELSE "False",
                        !.io_error = FALSE]
    /\ UNCHANGED <<config_file, files, runner, config_writes, parser_vars, script_vars>>

\* The checks cmd_read and cmd_write make before they use section and key.
key_found(config, args, needed) ==
    /\ config.ok
    /\ Len(args) >= needed
    /\ validate_section(args[1])
    /\ args[1] \in DOMAIN config.data
    /\ args[2] \in DOMAIN config.data[args[1]]

\* Argument lists of read and write: section, key and value, or fewer.
ArgLists ==
    {<<>>} \cup {<<s>> : s \in SectionArgs}
           \cup {<<s, k>> : s \in SectionArgs, k \in KeyArgs}
           \cup {<<s, k, v>> : s \in SectionArgs, k \in KeyArgs, v \in ValueStrings}

CmdRead ==
    /\ \E args \in ArgLists : reports(key_found(load_config, args, 2))

CmdList ==
    /\ \E args \in {<<>>} \cup {<<s>> : s \in SectionArgs} :
           reports(/\ load_config.ok
                   /\ Len(args) >= 1
                   /\ validate_section(args[1])
                   /\ args[1] \in DOMAIN load_config.data)

CmdSections ==
    /\ cm' = [cm EXCEPT !.result = IF load_config.ok THEN "True" ELSE "False",
                        !.io_error = FALSE]
    /\ UNCHANGED <<config_file, files, runner, config_writes, parser_vars, script_vars>>

\* config[section][key] = new_value
with_value(doc, section, key, new_value) ==
    [doc EXCEPT ![section] = [@ EXCEPT ![key] = new_value]]

\* cmd_write(args) on a configuration file: what the file holds afterwards,
\* the result and whether the dump failed.  The value is parsed to the type
\* of the current value and the whole configuration is dumped; when the dump
\* fails the file was truncated.
cmd_write(content, args, save_ok) ==
    LET config  == toml_load(content)
        refused == [file |-> content, result |-> "False", io_error |-> FALSE]
    IN  IF ~key_found(config, args, 3)
        THEN refused
        ELSE LET parsed == parse_value(args[3], config.data[args[1]][args[2]])
             IN  IF ~parsed.ok
                 THEN refused
                 ELSE IF save_ok
                 THEN [file |-> toml_dump(with_value(config.data, args[1], args[2],
                                                     parsed.value)),
                       result |-> "True", io_error |-> FALSE]
                 ELSE [file |-> EmptyFile, result |-> "False", io_error |-> TRUE]

CmdWrite ==
    /\ \E args \in ArgLists, save_ok \in BOOLEAN :
           LET done == cmd_write(config_file, args, save_ok)
           IN  /\ config_file' = done.file
               /\ cm' = [cm EXCEPT !.result = done.result,
                                   !.io_error = done.io_error]
    /\ UNCHANGED <<files, runner, config_writes, parser_vars, script_vars>>

\* Backups a second of the clock can be named after.
MaxStamps == 2

\* BACKUP_DIR / f"biomepruner-config-backup_{timestamp}.toml"
stamped(now) == <<"biomepruner-config-backup", now>>

\* A file that is in the backup directory (or elsewhere) before the first
\* command: its name is not one the clock will produce.
OldName == <<"old", 0>>

\* Names the restore command is tried with.
FileArgs == {OldName, <<"absent", 0>>} \cup {stamped(n) : n \in 1..MaxStamps}

\* The files written to disk with name n holding content c.
copied(fs, n, c) == [m \in DOMAIN fs \cup {n} |-> IF m = n THEN c ELSE fs[m]]

\* cmd_backup: shutil.copy2(CONFIG_FILE, backup_file)
CmdBackup ==
    \E copy_ok \in BOOLEAN :
        IF config_file = MissingFile
        THEN reports(FALSE)
        ELSE /\ files' = IF copy_ok THEN copied(files, stamped(cm.now), config_file)
                         ELSE files
             /\ cm' = [cm EXCEPT !.result = IF copy_ok THEN "True" ELSE "False",
                                 !.io_error = ~copy_ok]
             /\ UNCHANGED <<config_file, runner, config_writes, parser_vars, script_vars>>

\* cmd_restore(args) on a configuration file and the files on disk at second
\* now: the backup file must exist and load as TOML; the current
\* configuration is backed up (the result of that is not looked at); then
\* shutil.copy2(backup_file, CONFIG_FILE).
cmd_restore(content, fs, now, args, backup_ok, copy_ok) ==
    LET refused == [file |-> content, files |-> fs, result |-> "False",
                    io_error |-> FALSE]
    IN  IF Len(args) < 1 \/ args[1] \notin DOMAIN fs
        THEN refused
        ELSE IF ~toml_load(fs[args[1]]).ok
        THEN refused
        ELSE LET after_backup ==
                     IF content /= MissingFile /\ backup_ok
                     THEN copied(fs, stamped(now), content)
                     ELSE fs
             IN  [file     |-> IF copy_ok THEN after_backup[args[1]] ELSE content,
                  files    |-> after_backup,
                  result   |-> IF copy_ok THEN "True" ELSE "False",
                  io_error |-> ~(backup_ok /\ copy_ok)]

\* Argument lists of restore: a file name, or none.
RestoreArgs == {<<>>} \cup {<<n>> : n \in FileArgs}

CmdRestore ==
    /\ \E args \in RestoreArgs, backup_ok \in BOOLEAN, copy_ok \in BOOLEAN :
           LET done == cmd_restore(config_file, files, cm.now, args, backup_ok, copy_ok)
           IN  /\ config_file' = done.file
               /\ files' = done.files
               /\ cm' = [cm EXCEPT !.result = done.result,
                                   !.io_error = done.io_error]
    /\ UNCHANGED <<runner, config_writes, parser_vars, script_vars>>

\* A second passes between two commands.
Tick ==
    /\ cm.now < MaxStamps
    /\ cm' = [cm EXCEPT !.now = cm.now + 1]
    /\ UNCHANGED <<config_file, files, runner, config_writes, parser_vars, script_vars>>

\* Files that may lie on disk before the first command: a copy of the
\* configuration taken while the test runner had its flags set, or a file
\* that is no TOML.
OldFiles ==
    { toml_dump(enabled_config([general |-> SampleGeneral,
                                testing |-> SampleTesting], "all")),
      GarbageFile }

InitConfig ==
    /\ ParserIdle
    /\ ScriptsIdle
    /\ runner = [pc |-> "idle"]
    /\ config_writes = <<>>
    /\ config_file \in ConfigFiles
    /\ files \in {[n \in {} |-> GarbageFile]}
                    \cup {[n \in {OldName} |-> c] : c \in OldFiles}
    /\ cm = [now |-> 1, result |-> "none", io_error |-> FALSE]

NextConfig ==
    \/ CmdRead
    \/ CmdWrite
    \/ CmdList
    \/ CmdSections
    \/ CmdBackup
    \/ CmdRestore
    \/ Tick

SpecConfig == InitConfig /\ [][NextConfig]_tool_vars

(***************************************************************************)
(* The write command alone, on configuration files that also hold keys     *)
(* with string, float and list values.                                     *)
(***************************************************************************)
\* A section with a string, a float and a list.
SamplePerformance == [mode |-> "'abc'", scale |-> "1.5", biomes |-> "['abc']"]

TypedFiles ==
    { toml_file([general |-> SampleGeneral, performance |-> SamplePerformance], TRUE),
      toml_file([performance |-> SamplePerformance, testing |-> SampleTesting], FALSE) }

InitWrite ==
    /\ ParserIdle
    /\ ScriptsIdle
    /\ runner = [pc |-> "idle"]
    /\ config_writes = <<>>
    /\ config_file \in ConfigFiles \cup TypedFiles
    /\ files = [n \in {} |-> GarbageFile]
    /\ cm = [now |-> 1, result |-> "none", io_error |-> FALSE]

NextWrite == CmdWrite

SpecWrite == InitWrite /\ [][NextWrite]_tool_vars

(***************************************************************************)
(* Vocabulary of the properties.                                           *)
(***************************************************************************)
\* The entries emitted so far followed by the open accumulator, if any.
AllEntries == entries \o (IF current_entry = None THEN <<>> ELSE <<current_entry>>)

\* The line matches the header pattern.
IsHeader(line) == log_pattern(line).matched

\* The line begins with '[' and holds the substring '] ['.
BoundaryShape(line) ==
    /\ Len(line) >= 1
    /\ line[1] = "["
    /\ \E k \in 1..(Len(line) - 2) :
           line[k] = "]" /\ line[k + 1] = " " /\ line[k + 2] = "["

\* The positions of the header lines among the first n input lines.
HeaderLines(n) == {j \in 1..n : IsHeader(lines[j])}

\* The position of the last header line among the first n lines (0: none).
LastHeader(n) ==
    LET hs == HeaderLines(n)
    IN  IF hs = {} THEN 0 ELSE CHOOSE h \in hs : \A g \in hs : g <= h

\* An entry is open once the first n lines are processed: there is a header
\* line and no boundary line after the last one.
OpenAfter(n) ==
    LET h == LastHeader(n)
    IN  /\ h > 0
        /\ \A k \in (h + 1)..n : ~BoundaryShape(lines[k])

\* c is l without its trailing whitespace (and nothing else removed).
IsRightTrimOf(c, l) ==
    /\ Len(c) <= Len(l)
    /\ \A k \in 1..Len(c) : c[k] = l[k]
    /\ \A k \in (Len(c) + 1)..Len(l) : l[k] \in {" ", "\t", "\n"}
    /\ (c = <<>> \/ c[Len(c)] \notin {" ", "\t", "\n"})

\* The input positions entry e claims: line_number .. line_number+len-1.
Covered(e) == e.line_number .. (e.line_number + Len(e.content) - 1)

\* The text holds the tag "biomepruner" in any mix of cases.
Tag == <<"b","i","o","m","e","p","r","u","n","e","r">>

ContainsTag(text) ==
    \E k \in 0..(Len(text) - Len(Tag)) :
        \A j \in 1..Len(Tag) : Lower(text[k + j]) = Tag[j]

(***************************************************************************)
(* C1..C10: segmentation of one parse of a fresh parser object.            *)
(***************************************************************************)

\* C1: parse_log produces exactly one entry per line that matches the header
\* pattern and none for any other line: at every point of the parse the
\* entries (emitted or open) are, in order, the header lines processed so far,
\* and at the end k header lines have yielded exactly k entries.
C1_OneEntryPerHeader ==
    LET headers == HeaderLines(i)
    IN  /\ Len(AllEntries) = Cardinality(headers)
        /\ {AllEntries[k].line_number : k \in 1..Len(AllEntries)} = headers
        /\ (pc = "done" /\ result = "True") =>
               /\ i = Len(lines)
               /\ Len(entries) = Cardinality(headers)

\* A header line closed an open entry of another level, and a line that is
\* no header produced no entry.
C1_Witness ==
    /\ pc = "done"
    /\ Len(lines) = 3
    /\ Len(entries) = 2
    /\ entries[1].line_number = 1
    /\ entries[2].line_number = 2
    /\ entries[1].level /= entries[2].level

\* C2: while an entry is open, a line that is no header but starts with '['
\* and holds '] [' closes the open entry: the entry is emitted as it was (the
\* line is not appended to it), no entry is opened and the accumulator is
\* empty afterwards; emitted entries are never changed later.
C2_BoundaryCloses ==
    /\ [][ ( /\ pc = "loop"
             /\ i < Len(lines)
             /\ current_entry /= None
             /\ ~IsHeader(lines[i + 1])
             /\ BoundaryShape(lines[i + 1]) )
           => ( /\ current_entry' = None
                /\ entries' = Append(entries, current_entry) ) ]_vars
    /\ [][ /\ Len(entries') >= Len(entries)
           /\ SubSeq(entries', 1, Len(entries)) = entries ]_vars

\* A boundary line has just closed an entry that ends on the line before it.
C2_Witness ==
    /\ pc = "loop"
    /\ i >= 2
    /\ current_entry = None
    /\ ~IsHeader(lines[i])
    /\ BoundaryShape(lines[i])
    /\ Len(entries) >= 1
    /\ entries[Len(entries)].line_number + Len(entries[Len(entries)].content) = i

\* The line has the shape of a header (bracketed timestamp, optional
\* whitespace, bracketed <category>/<LEVEL>) with a LEVEL other than WARN,
\* ERROR and FATAL.
OtherLevelHeader(line) ==
    /\ Len(line) >= 1
    /\ line[1] = "["
    /\ LET p1 == IndexFrom(line, "]", 2)
           q  == SkipSpace(line, p1 + 1)
           p2 == IndexFrom(line, "]", q + 1)
       IN  /\ p1 >= 3
           /\ q <= Len(line)
           /\ line[q] = "["
           /\ p2 > 0
           /\ \E sl \in (q + 2)..(p2 - 2) : line[sl] = "/"
    /\ ~IsHeader(line)

\* C3: a line of the header shape whose LEVEL is not WARN, ERROR or FATAL
\* never opens an entry and never appears in the content of an entry.
C3_OtherLevelNeverCaptured ==
    \A n \in 1..Len(AllEntries) :
        \A k \in 1..Len(AllEntries[n].content) :
            ~OtherLevelHeader(AllEntries[n].content[k])

\* C4: every content[k] of every entry is input line line_number + k (k
\* counted from 0) with only its trailing whitespace and terminator removed:
\* a gap-free run of input lines that starts at the header line.
C4_ContentIsConsecutiveRun ==
    \A n \in 1..Len(AllEntries) :
        LET e == AllEntries[n]
        IN  \A k \in 1..Len(e.content) :
                /\ e.line_number + k - 1 \in 1..i
                /\ IsRightTrimOf(e.content[k], lines[e.line_number + k - 1])

\* An entry holds a continuation line that kept its leading whitespace and
\* lost trailing whitespace besides the terminator.
C4_Witness ==
    /\ pc = "done"
    /\ \E n \in 1..Len(entries) :
           LET e == entries[n]
           IN  /\ Len(e.content) >= 2
               /\ e.content[2] /= <<>>
               /\ e.content[2][1] = "\t"
               /\ Len(lines[e.line_number + 1]) >= Len(e.content[2]) + 2

RECURSIVE PositionsOf(_)
\* The input positions of the content lines of the entries es, in output order.
PositionsOf(es) ==
    IF es = <<>> THEN <<>>
    ELSE [k \in 1..Len(es[1].content) |-> es[1].line_number + k - 1]
             \o PositionsOf(Tail(es))

RECURSIVE ContentOf(_)
\* The concatenation of the content of the entries es, in output order.
ContentOf(es) ==
    IF es = <<>> THEN <<>> ELSE es[1].content \o ContentOf(Tail(es))

\* C5: entries come in strictly increasing line_number order, and the
\* concatenation of their content is a subsequence of the input lines taken
\* at strictly increasing positions (no line in two entries, none duplicated,
\* none reordered).
C5_EntriesDisjointInOrder ==
    LET pos  == PositionsOf(AllEntries)
        text == ContentOf(AllEntries)
    IN  /\ \A n \in 1..(Len(AllEntries) - 1) :
               AllEntries[n].line_number < AllEntries[n + 1].line_number
        /\ \A a \in 1..(Len(pos) - 1) : pos[a] < pos[a + 1]
        /\ \A a \in 1..Len(pos) :
               /\ pos[a] \in 1..Len(lines)
               /\ IsRightTrimOf(text[a], lines[pos[a]])

\* Two entries were emitted with a discarded line between them.
C5_Witness ==
    /\ pc = "done"
    /\ Len(entries) = 2
    /\ entries[2].line_number > entries[1].line_number + Len(entries[1].content)

\* C6: the open accumulator and every emitted entry have a non-empty content
\* whose first element matches the header pattern and whose later elements
\* do not.
C6_ContentStartsWithOnlyHeader ==
    \A n \in 1..Len(AllEntries) :
        LET c == AllEntries[n].content
        IN  /\ Len(c) >= 1
            /\ IsHeader(c[1])
            /\ \A k \in 2..Len(c) : ~IsHeader(c[k])

\* During the parse: an entry is emitted and the accumulator holds a header
\* line and a continuation line.
C6_Witness ==
    /\ pc = "loop"
    /\ Len(entries) >= 1
    /\ current_entry /= None
    /\ Len(current_entry.content) >= 2

\* C7: a line that is no header, processed while no entry is open (before
\* the first header, or after a boundary line and before the next header),
\* changes neither the accumulator nor the emitted entries.
C7_IgnoredLineChangesNothing ==
    [][ ( /\ pc = "loop"
          /\ i < Len(lines)
          /\ ~IsHeader(lines[i + 1])
          /\ (current_entry = None \/ ~OpenAfter(i)) )
        => ( /\ current_entry' = current_entry
             /\ entries' = entries
             /\ current_entry = None ) ]_vars

\* A line that is neither header nor boundary was ignored after an entry
\* had been closed.
C7_Witness ==
    /\ pc = "loop"
    /\ i >= 3
    /\ current_entry = None
    /\ Len(entries) >= 1
    /\ ~IsHeader(lines[i])
    /\ ~BoundaryShape(lines[i])

\* C8: an entry still open when the input ends is emitted exactly once, as
\* the last entry, with every line from its header to the end of the input;
\* no entry is emitted twice.
C8_LastEntryFlushedOnce ==
    (pc = "done" /\ result = "True") =>
        /\ OpenAfter(Len(lines)) =>
               LET h == LastHeader(Len(lines))
               IN  /\ Len(entries) >= 1
                   /\ entries[Len(entries)].line_number = h
                   /\ Len(entries[Len(entries)].content) = Len(lines) - h + 1
        /\ \A a, b \in 1..Len(entries) :
               a /= b => entries[a].line_number /= entries[b].line_number

\* The input ended inside an entry: a header line and two continuation
\* lines, emitted once with a content of length 3.
C8_Witness ==
    /\ pc = "done"
    /\ Len(lines) = 3
    /\ Len(entries) = 1
    /\ entries[1].line_number = 1
    /\ Len(entries[1].content) = 3

\* C9: biomepruner_messages holds, in increasing line order and once each,
\* every input line that contains the tag in any case, with its 1-based
\* line number and right-trimmed text, whatever the line is for the entries.
C9_TaggedLinesAreAllMatches ==
    variant = "tooling" =>
        LET msgs   == biomepruner_messages
            tagged == {j \in 1..i : ContainsTag(lines[j])}
        IN  /\ {msgs[m].line_number : m \in 1..Len(msgs)} = tagged
            /\ \A m \in 1..(Len(msgs) - 1) :
                   msgs[m].line_number < msgs[m + 1].line_number
            /\ \A m \in 1..Len(msgs) :
                   IsRightTrimOf(msgs[m].content, lines[msgs[m].line_number])

\* A tagged boundary line that belongs to no entry is in the list, after a
\* tagged line of an entry.
C9_Witness ==
    /\ variant = "tooling"
    /\ pc = "done"
    /\ Len(entries) >= 1
    /\ Len(biomepruner_messages) >= 2
    /\ \E m \in 1..Len(biomepruner_messages) :
           LET j == biomepruner_messages[m].line_number
           IN  /\ BoundaryShape(lines[j])
               /\ ~IsHeader(lines[j])
               /\ \A n \in 1..Len(entries) : j \notin Covered(entries[n])

\* C10: in the tooling variant is_biomepruner of an entry is true iff some
\* line of its content holds the tag, iff the tagged-line list has a record
\* whose line number lies within the entry; tagged boundary or ignored lines
\* tag no entry.
C10_FlagIffContentTagged ==
    variant = "tooling" =>
        \A n \in 1..Len(AllEntries) :
            LET e == AllEntries[n]
            IN  /\ e.is_biomepruner <=>
                       \E k \in 1..Len(e.content) : ContainsTag(e.content[k])
                /\ e.is_biomepruner <=>
                       \E m \in 1..Len(biomepruner_messages) :
                           biomepruner_messages[m].line_number \in Covered(e)

\* An untagged entry was closed by a tagged boundary line, and another entry
\* is tagged by a continuation line only.
C10_Witness ==
    /\ variant = "tooling"
    /\ pc = "done"
    /\ \E n \in 1..Len(entries) :
           /\ ~entries[n].is_biomepruner
           /\ \E m \in 1..Len(biomepruner_messages) :
                  biomepruner_messages[m].line_number =
                      entries[n].line_number + Len(entries[n].content)

(***************************************************************************)
(* C11..C12: repeated parses.                                              *)
(***************************************************************************)

C12_SecondCallLeavesSingleResult ==
    (pc = "done" /\ calls >= 2) =>
        /\ entries = snapshot.entries
        /\ biomepruner_messages = snapshot.biomepruner_messages

(***************************************************************************)
(* C13..C15: fields of an entry, unreadable input, termination.            *)
(***************************************************************************)
\* The category of an entry, under the key its class uses.
CategoryOf(e) ==
    IF "thread_category" \in DOMAIN e THEN e.thread_category ELSE e.category

\* Line h is '[' ts ']', a run of whitespace, '[' cat '/' lv ']', and then
\* anything; neither ts nor cat is empty or holds a ']'.
HeaderSpells(h, ts, cat, lv) ==
    /\ Len(ts) >= 1 /\ Len(cat) >= 1
    /\ \A k \in 1..Len(ts) : ts[k] /= "]"
    /\ \A k \in 1..Len(cat) : cat[k] /= "]"
    /\ startswith(h, <<"[">> \o ts \o <<"]">>)
    /\ \E w \in 0..Len(h) :
           LET from  == Len(ts) + 2 + w
               second == <<"[">> \o cat \o <<"/">> \o lv \o <<"]">>
           IN  /\ from + Len(second) <= Len(h)
               /\ \A k \in (Len(ts) + 3)..from : h[k] \in {" ", "\t", "\n"}
               /\ SubSeq(h, from + 1, from + Len(second)) = second

\* C13: every entry, emitted or open, has a level that is WARN, ERROR or
\* FATAL and is the text after the '/' of the second bracket pair of its
\* opening line, a timestamp that is the text inside the first bracket pair
\* and a category that is the text of the second pair before that '/'; and
\* no step of the parse changes the three fields of an entry once it is made.
C13_FieldsComeFromHeader ==
    /\ [](\A k \in 1..Len(AllEntries) :
            LET e == AllEntries[k]
            IN  /\ e.level \in { <<"W","A","R","N">>, <<"E","R","R","O","R">>,
                                 <<"F","A","T","A","L">> }
                /\ HeaderSpells(lines[e.line_number], e.timestamp,
                                CategoryOf(e), e.level))
    /\ [][ /\ \A k \in 1..Len(entries) :
                 /\ k <= Len(entries')
                 /\ entries'[k].timestamp = entries[k].timestamp
                 /\ CategoryOf(entries'[k]) = CategoryOf(entries[k])
                 /\ entries'[k].level = entries[k].level
           /\ (current_entry /= None /\ current_entry' /= None
                  /\ current_entry'.line_number = current_entry.line_number) =>
                 /\ current_entry'.timestamp = current_entry.timestamp
                 /\ CategoryOf(current_entry') = CategoryOf(current_entry)
                 /\ current_entry'.level = current_entry.level
           /\ (current_entry /= None /\ Len(entries') = Len(entries) + 1) =>
                 /\ entries'[Len(entries')].timestamp = current_entry.timestamp
                 /\ CategoryOf(entries'[Len(entries')]) = CategoryOf(current_entry)
                 /\ entries'[Len(entries')].level = current_entry.level ]_vars

\* A FATAL entry that was extended by a continuation line has been emitted
\* with the timestamp and the category of its opening line.
C13_Witness ==
    /\ pc = "done"
    /\ \E k \in 1..Len(entries) :
           /\ entries[k].level = <<"F","A","T","A","L">>
           /\ entries[k].timestamp = <<"t">>
           /\ CategoryOf(entries[k]) = <<"c">>
           /\ Len(entries[k].content) >= 2

\* C14: when the log file does not exist, or reading it fails, parse_log
\* returns False in one step that leaves entries and biomepruner_messages as
\* they were, so that both are empty on a fresh parser.
C14_NoFileReturnsFalse ==
    /\ []((pc = "done" /\ file_state \in {"missing", "unreadable"}) =>
            /\ result = "False"
            /\ entries = <<>>
            /\ biomepruner_messages = <<>>)
    /\ [][(pc = "start" /\ file_state \in {"missing", "unreadable"}) =>
            /\ pc' = "done"
            /\ result' = "False"
            /\ UNCHANGED <<entries, biomepruner_messages, current_entry>>]_vars

\* parse_log has returned for a log file that does not exist.
C14_Witness ==
    /\ pc = "done"
    /\ file_state = "missing"
    /\ result = "False"
    /\ i = 0

\* The steps parse_log still has to make: the lines not yet visited, the
\* read before the loop and the return after it.
Remaining ==
    CASE pc = "start" -> Len(readlines(file_content)) + 2
      [] pc = "loop"  -> Len(lines) - i + 1
      [] OTHER        -> 0

\* Some step of parse_log can be made: the file test or the read at the
\* start, the visit of the next line, or the return after the last line.
CanStep ==
    \/ pc = "start" /\ file_state \in {"ok", "missing", "unreadable"}
    \/ pc = "loop" /\ i < Len(lines) /\ variant \in {"standalone", "tooling"}
    \/ pc = "loop" /\ i = Len(lines)

\* C15: for every sequence of lines the pass visits the lines one by one in
\* order (each loop step moves on by exactly one line of the unchanged list),
\* can always make a step until it has returned, comes closer to its return
\* with every step, and returns True after the last line.
C15_TerminatesReturningTrue ==
    /\ [](pc = "done" \/ CanStep)
    /\ [][Remaining' < Remaining]_vars
    /\ [][(pc = "loop" /\ pc' = "loop") => (i' = i + 1 /\ lines' = lines)]_vars
    /\ []((pc = "done" /\ file_state = "ok") =>
            /\ result = "True"
            /\ lines = readlines(file_content)
            /\ i = Len(lines))

\* A pass over three lines none of which is a header (a look-alike, an
\* unclosed bracket and an empty line among them) has returned True.
C15_Witness ==
    /\ pc = "done"
    /\ result = "True"
    /\ i = 3
    /\ entries = <<>>
    /\ \E k \in 1..3 : BoundaryShape(lines[k])
    /\ \E k \in 1..3 : rstrip(lines[k]) = <<"[", "x">>

(***************************************************************************)
(* C16: the three implementations of parse_log.                            *)
(***************************************************************************)
\* What the claim compares of an entry: the category under either key, and
\* not the is_biomepruner flag only log_parser.py has.
Core(e) ==
    IF e = None THEN <<>>
    ELSE <<e.line_number, e.timestamp, CategoryOf(e), e.level, e.content>>

CoreSeq(es) == [k \in 1..Len(es) |-> Core(es[k])]

\* All three objects have made the same number of steps.
RoundComplete == ~stepped /\ variant = "standalone" /\ Len(parked) = 2

\* C16: stepped side by side on the same file the three implementations are
\* at the same line after the same number of steps, have emitted entries equal
\* in line_number, timestamp, category, level and content, have the same
\* entry open (or none), and return the same value.
C16_ImplementationsAgree ==
    RoundComplete =>
        \A k \in 1..Len(parked) :
            /\ parked[k].pc = pc
            /\ parked[k].i = i
            /\ parked[k].lines = lines
            /\ parked[k].result = result
            /\ CoreSeq(parked[k].entries) = CoreSeq(entries)
            /\ Core(parked[k].current_entry) = Core(current_entry)

\* All three have returned with one entry of two lines, the second of which
\* has trailing whitespace before its newline (so that the raw line and the
\* right-trimmed line differ by more than the newline).
C16_Witness ==
    /\ RoundComplete
    /\ pc = "done"
    /\ parked[1].variant = "runner" /\ parked[2].variant = "tooling"
    /\ parked[2].pc = "done"
    /\ Len(entries) = 1
    /\ Len(entries[1].content) = 2
    /\ rstrip(lines[2]) /= lines[2]
    /\ Len(rstrip(lines[2])) + 1 < Len(lines[2])

(***************************************************************************)
(* C17: the summary of export_json.                                        *)
(***************************************************************************)
RECURSIVE SumOver(_, _)
\* The sum of f over the finite set S of arguments.
SumOver(f, S) ==
    IF S = {} THEN 0
    ELSE LET x == CHOOSE y \in S : TRUE IN f[x] + SumOver(f, S \ {x})

\* C17: in the record export_json builds, total_errors_warnings is the number
\* of entries, the counts of level_breakdown add up to it,
\* biomepruner_errors_warnings is the number of flagged entries and exceeds
\* neither total_errors_warnings nor total_biomepruner_messages.
C17_SummaryCountsConsistent ==
    variant = "tooling" =>
        LET record  == export_json
            summary == record.summary
        IN  /\ summary.total_errors_warnings = Len(record.error_entries)
            /\ summary.total_biomepruner_messages = Len(record.biomepruner_messages)
            /\ SumOver(summary.level_breakdown, DOMAIN summary.level_breakdown)
                   = summary.total_errors_warnings
            /\ summary.biomepruner_errors_warnings =
                   Cardinality({k \in 1..Len(record.error_entries) :
                                   record.error_entries[k].is_biomepruner})
            /\ summary.biomepruner_errors_warnings <= summary.total_errors_warnings
            /\ summary.biomepruner_errors_warnings
                   <= summary.total_biomepruner_messages

\* A parse has ended with a FATAL and an ERROR entry, one of them flagged,
\* and with two tagged lines, one of them outside the flagged entry.
C17_Witness ==
    /\ variant = "tooling"
    /\ pc = "done"
    /\ export_json.summary.total_errors_warnings = 2
    /\ export_json.summary.level_breakdown[<<"F","A","T","A","L">>] = 1
    /\ export_json.summary.level_breakdown[<<"E","R","R","O","R">>] = 1
    /\ export_json.summary.biomepruner_errors_warnings = 1
    /\ export_json.summary.total_biomepruner_messages = 2

(***************************************************************************)
(* C18, C20: the test runner and the configuration file.                   *)
(***************************************************************************)
\* No attempt of restore_config to write the file has failed.
NoRestoreFailure ==
    \A k \in 1..Len(config_writes) :
        config_writes[k].by = "restore_config" => config_writes[k].ok

\* C18: in every execution of run in which backup_config succeeded, whichever
\* later step fails, times out or raises (KeyboardInterrupt included), the
\* configuration file holds the backed-up content when run ends, and the write
\* of that content by restore_config is the last write the runner made to the
\* file (executions in which the restoring write itself failed set aside).
C18_RestoredWhenRunEnds ==
    (runner.pc = "returned" /\ runner.config_backup /= NoBackup
        /\ NoRestoreFailure) =>
        /\ config_file = runner.config_backup
        /\ config_writes /= <<>>
        /\ config_writes[Len(config_writes)].by = "restore_config"

\* The steps of run that come before the configuration file is changed.
PreBackupSteps == {"check_dependencies", "check_paths", "backup_config"}

\* The try block was left through one of its two exception handlers
\* (return 1 for KeyboardInterrupt, return 3 for any other exception; no
\* step before the backup returns either value by itself).
RaisedInTry(r) == r.pending \in {"1", "3"}

\* C20: the configuration file is written only after backup_config has
\* succeeded.  A failure of check_dependencies, check_paths or backup_config
\* executes `return 2` and leaves config_backup None; run never reaches
\* enable_automated_testing without a backup; with config_backup None cleanup
\* writes nothing, and the value run then returns is 2.
C20_WrittenOnlyAfterBackup ==
    /\ [](config_writes /= <<>> => runner.config_backup /= NoBackup)
    /\ []((runner.pc \in TrySteps \ PreBackupSteps) =>
              runner.config_backup /= NoBackup)
    /\ [][(runner.pc \in PreBackupSteps /\ runner'.pc \notin TrySteps
              /\ ~RaisedInTry(runner')) =>
             /\ runner'.pending = "2"
             /\ runner'.config_backup = NoBackup
             /\ UNCHANGED <<config_file, config_writes>>]_tool_vars
    /\ [][runner.config_backup = NoBackup /\ runner.pc \notin TrySteps =>
             UNCHANGED <<config_file, config_writes>>]_tool_vars
    /\ []((runner.pc = "returned" /\ runner.config_backup = NoBackup
              /\ runner.exit_code /= "KeyboardInterrupt"
              /\ runner.pending = "2") =>
             /\ runner.exit_code = "2"
             /\ config_writes = <<>>)

\* backup_config has failed on an existing configuration file and run has
\* returned 2 without a write to the file.
C20_Witness ==
    /\ runner.pc = "returned"
    /\ runner.exit_code = "2"
    /\ runner.config_backup = NoBackup
    /\ config_file = toml_file([general |-> SampleGeneral,
                                testing |-> SampleTesting], TRUE)
    /\ config_writes = <<>>

(***************************************************************************)
(* C19: config_manager and the protected section.                          *)
(***************************************************************************)
\* The testing section of a configuration file, if it has one.
TestingOf(content) ==
    IF content.kind = "toml" /\ "testing" \in DOMAIN content.data
    THEN [present |-> TRUE, table |-> content.data["testing"]]
    ELSE [present |-> FALSE]

\* C19: no command of config_manager (read, write, list, sections, backup,
\* restore) changes the testing section the configuration file has (commands
\* in which a file operation failed set aside).
C19_TestingSectionUnchanged ==
    [][(TestingOf(config_file).present /\ ~cm'.io_error) =>
           TestingOf(config_file') = TestingOf(config_file)]_tool_vars

(***************************************************************************)
(* The exit code of run.                                                   *)
(***************************************************************************)
SetupSteps ==
    {"check_dependencies", "check_paths", "backup_config",
     "enable_automated_testing", "start_prism_launcher", "setup_file_watcher"}

LaunchSteps == {"launch_gradle_build", "wait_for_minecraft_start"}

\* The test kinds test_mode selects.
BiomeSelected(test_mode) == test_mode \in {"all", "biome", "biome+performance"}
PerformanceSelected(test_mode) == test_mode \in {"all", "performance", "biome+performance"}

\* Every selected test kind passed, read from the analysis.
SelectedTestsPassed(r) ==
    /\ BiomeSelected(r.test_mode) => r.analysis.success_rate.num = r.analysis.success_rate.den
    /\ PerformanceSelected(r.test_mode) => r.analysis.performance_test_completed

\* The step at which run left the try block returned False.
FailedAt(r, steps) == r.raised = "none" /\ r.left_at \in steps

\* C21: whenever run has fixed its return value, 0 means that every setup
\* step succeeded, Gradle was launched, a Minecraft process was found, a
\* results update was detected, an artifact was collected, the analysis
\* succeeded and every selected test kind passed; a failed setup step gives
\* 2, a failed launch or start or an unexpected exception gives 3, and a
\* test timeout, missing artifacts, a failed analysis or a failed test
\* gives 1; a run that returns, returns that value.
C21_ExitCodeTellsOutcome ==
    /\ runner.pending /= "none" =>
          /\ runner.pending = "0" =>
                /\ runner.raised = "none"
                /\ (TrySteps \ {"analyze_test_results"}) \subseteq runner.passed
                /\ runner.analysis /= NoAnalysis
                /\ runner.analysis.success
                /\ SelectedTestsPassed(runner)
          /\ FailedAt(runner, SetupSteps) => runner.pending = "2"
          /\ FailedAt(runner, LaunchSteps) => runner.pending = "3"
          /\ runner.raised = "Exception" => runner.pending = "3"
          /\ FailedAt(runner, {"wait_for_test_completion", "collect_test_artifacts"}) =>
                runner.pending = "1"
          /\ (/\ FailedAt(runner, {"analyze_test_results"})
              /\ (~runner.analysis.success \/ ~SelectedTestsPassed(runner))) =>
                runner.pending = "1"
    /\ (runner.pc = "returned" /\ runner.exit_code \in {"0", "1", "2", "3"}) =>
          runner.exit_code = runner.pending

\* Witness for C21: a run in mode 'all' whose results file reports MaxTests
\* biome tests has returned 0.
C21_Witness ==
    /\ runner.pc = "returned"
    /\ runner.test_mode = "all"
    /\ runner.exit_code = "0"
    /\ runner.analysis.total_biome_tests = MaxTests

\* run has evaluated a successful analysis and fixed its return value.
Analysed(r) ==
    /\ r.pending /= "none"
    /\ FailedAt(r, {"analyze_test_results"})
    /\ r.analysis /= NoAnalysis
    /\ r.analysis.success

\* C22: with zero biome tests reported the success rate is 1.0 in mode
\* 'performance' and 0.0 in every other mode, so that no run in mode 'all',
\* 'biome' or 'biome+performance' returns 0 with zero biome tests; in mode
\* 'biome' the exit code is decided by the biome success rate alone and in
\* mode 'performance' by the performance result alone.
C22_ZeroTestsAndSelectedKinds ==
    Analysed(runner) =>
        LET a == runner.analysis
        IN  /\ a.total_biome_tests = 0 =>
                  a.success_rate = IF runner.test_mode = "performance"
                                   THEN [num |-> 1, den |-> 1]
                                   ELSE [num |-> 0, den |-> 1]
            /\ (runner.pending = "0" /\ runner.test_mode /= "performance") =>
                  a.total_biome_tests > 0
            /\ runner.test_mode = "biome" =>
                  (runner.pending = "0" <=> a.success_rate.num = a.success_rate.den)
            /\ runner.test_mode = "performance" =>
                  (runner.pending = "0" <=> a.performance_test_completed)

\* Witness for C22: a run in mode 'performance' has returned 0 on results
\* that report zero biome tests and passedBiomeTests above zero.
C22_Witness ==
    /\ runner.pc = "returned"
    /\ runner.exit_code = "0"
    /\ runner.test_mode = "performance"
    /\ runner.analysis.total_biome_tests = 0
    /\ runner.analysis.passed_biome_tests > 0

\* This step is a successful enable_automated_testing.
EnabledNow ==
    /\ runner.pc = "enable_automated_testing"
    /\ runner'.pc = "start_prism_launcher"

\* C23: after a successful enable_automated_testing the written file has
\* testing.enabled and testing.automatedTestingEnabled true and the two test
\* switches as the mode asks, and every section other than 'testing' keeps
\* its keys and values; the only section that may be added besides
\* 'testing' is an empty 'general'.
C23_EnabledConfigAsModeAsks ==
    [][EnabledNow =>
          LET old == config_file.data
              new == config_file'.data
              m   == runner.test_mode
          IN  /\ config_file'.kind = "toml"
              /\ "testing" \in DOMAIN new
              /\ new["testing"]["enabled"] = "true"
              /\ new["testing"]["automatedTestingEnabled"] = "true"
              /\ new["testing"]["biomeTestsEnabled"] =
                     (IF m \in {"biome", "all", "biome+performance"} THEN "true" ELSE "false")
              /\ new["testing"]["performanceTestsEnabled"] =
                     (IF m \in {"performance", "all", "biome+performance"} THEN "true" ELSE "false")
              /\ \A sec \in DOMAIN old \ {"testing"} :
                     sec \in DOMAIN new /\ new[sec] = old[sec]
              /\ \A sec \in DOMAIN new \ DOMAIN old :
                     \/ sec = "testing"
                     \/ sec = "general" /\ DOMAIN new[sec] = {}
              /\ config_writes' = Append(config_writes,
                     [by |-> "enable_automated_testing", ok |-> TRUE,
                      content |-> config_file'])]_tool_vars

\* Witness for C23: in mode 'biome' the flags have been written to a file
\* that had a general section with keys and a testing section with
\* biomeTestsEnabled and without performanceTestsEnabled.
C23_Witness ==
    /\ runner.pc = "start_prism_launcher"
    /\ runner.test_mode = "biome"
    /\ runner.config_backup.kind = "toml"
    /\ "general" \in DOMAIN runner.config_backup.data
    /\ "testing" \in DOMAIN runner.config_backup.data
    /\ config_file.data["general"] = SampleGeneral
    /\ config_file.data["testing"]["performanceTestsEnabled"] = "false"

\* C24: no results notification is lost.  The observer runs when Gradle is
\* launched; the event is set exactly when a modification of a file (not a
\* directory) named biomepruner_test_results.json has been delivered; once
\* set it is never cleared; and wait_for_test_completion returns True when
\* such a modification was delivered at any moment before the wait ended,
\* also before it began, and False only when none was.
C24_NoNotificationLost ==
    /\ [](runner.pc = "launch_gradle_build" =>
             runner.observing /\ runner.watcher /= NoWatcher)
    /\ [](runner.gradle_process => "setup_file_watcher" \in runner.passed)
    /\ [](runner.watcher /= NoWatcher =>
             (runner.watcher.results_updated <=> runner.notified_at /= "none"))
    /\ [][(runner.watcher /= NoWatcher /\ runner.watcher.results_updated) =>
             (runner'.watcher /= NoWatcher /\ runner'.watcher.results_updated)]_tool_vars
    /\ [][(/\ runner.pc = "wait_for_test_completion"
           /\ runner'.pc /= "wait_for_test_completion"
           /\ runner'.raised = "none") =>
             /\ runner.notified_at /= "none" =>
                    /\ runner'.pc = "shutdown_minecraft"
                    /\ "wait_for_test_completion" \in runner'.passed
             /\ runner.notified_at = "none" =>
                    /\ runner'.pc = "cleanup_observer"
                    /\ runner'.pending = "1"]_tool_vars

\* Witness for C24: the results file was modified while Gradle was being
\* launched, before the wait began, and the wait has returned True.
C24_Witness ==
    /\ runner.notified_at = "launch_gradle_build"
    /\ "wait_for_test_completion" \in runner.passed
    /\ runner.watcher.results_updated

(***************************************************************************)
(* The results directory.                                                  *)
(***************************************************************************)
\* The timestamped files of a directory.
Timestamped(dir) ==
    {n \in DOMAIN dir : n.stem = "test_results" /\ n.sep = "_" /\ n.stamp > 0}

\* cleanup_old_test_result_files has returned.
CleanedUp ==
    /\ artifacts.pc \in {"copy_logs", "returned"}
    /\ artifacts.cleaned

\* C25: when cleanup_old_test_result_files has returned and every deletion
\* succeeded, at most MAX_TEST_RESULT_FILES (5) timestamped files remain,
\* no remaining file is older than a deleted one, and with 5 or fewer files
\* before nothing was deleted; test_results.json is never deleted and no
\* file appears or changes.
C25_KeepsFiveNewest ==
    CleanedUp =>
        LET before == artifacts.before
            after  == artifacts.dir
            gone   == Timestamped(before) \ Timestamped(after)
        IN  /\ PlainName \in DOMAIN before => PlainName \in DOMAIN after
            /\ DOMAIN after \subseteq DOMAIN before
            /\ \A n \in DOMAIN after : after[n] = before[n]
            /\ Cardinality(Timestamped(before)) <= 5 => after = before
            /\ artifacts.unlink_failed = {} =>
                  /\ Cardinality(Timestamped(after)) <= 5
                  /\ Cardinality(Timestamped(after)) =
                        IF Cardinality(Timestamped(before)) <= 5
                        THEN Cardinality(Timestamped(before)) ELSE 5
                  /\ \A kept \in Timestamped(after), deleted \in gone :
                        before[kept] >= before[deleted]

\* Witness for C25: seven timestamped files of two different ages were
\* there, two were deleted, and the newest of them all is among the five
\* that remain beside test_results.json.
C25_Witness ==
    /\ CleanedUp
    /\ artifacts.unlink_failed = {}
    /\ Cardinality(Timestamped(artifacts.before)) = 7
    /\ Cardinality(Timestamped(artifacts.dir)) = 5
    /\ \E old \in Timestamped(artifacts.before) \ Timestamped(artifacts.dir),
          new \in Timestamped(artifacts.dir) :
           artifacts.before[old] < artifacts.before[new]
    /\ PlainName \in DOMAIN artifacts.dir

(***************************************************************************)
(* The commands of config_manager that change the configuration file.      *)
(***************************************************************************)
\* The (section, key) pairs of a document.
DocKeys(doc) == UNION { {<<sec, k>> : k \in DOMAIN doc[sec]} : sec \in DOMAIN doc }

\* The (section, key) pairs that are in one document only or hold different
\* values, and the sections that are in one document only.
Differing(a, b) ==
    {p \in DocKeys(a) \cup DocKeys(b) :
        \/ p \notin DocKeys(a)
        \/ p \notin DocKeys(b)
        \/ a[p[1]][p[2]] /= b[p[1]][p[2]]}
      \cup {<<sec>> : sec \in (DOMAIN a \cup DOMAIN b) \ (DOMAIN a \cap DOMAIN b)}

\* The write command with these arguments has to be refused on this file.
MustRefuse(content, args) ==
    \/ content.kind /= "toml"
    \/ Len(args) < 3
    \/ args[1] = "testing"
    \/ args[1] \notin {"general", "biome_blacklist", "performance", "heightmap"}
    \/ args[1] \notin DOMAIN content.data
    \/ args[2] \notin DOMAIN content.data[args[1]]
    \/ ~parse_value(args[3], content.data[args[1]][args[2]]).ok

C27_RestoreKeepsBoth ==
    \A args \in RestoreArgs :
        LET done == cmd_restore(config_file, files, cm.now, args, TRUE, TRUE)
        IN  /\ (\/ Len(args) < 1
                \/ args[1] \notin DOMAIN files
                \/ files[args[1]].kind /= "toml") =>
                   done.file = config_file /\ done.result = "False"
            /\ done.result = "True" =>
                   /\ done.file = files[args[1]]
                   /\ config_file /= MissingFile =>
                          \E n \in DOMAIN done.files : done.files[n] = config_file

\* C28: whatever the configuration file holds, a write that succeeds stores
\* a value of the type the key's value had before.
C28_WriteKeepsType ==
    \A args \in ArgLists :
        LET done == cmd_write(config_file, args, TRUE)
        IN  done.result = "True" =>
                type_of(done.file.data[args[1]][args[2]]) =
                    type_of(config_file.data[args[1]][args[2]])

(***************************************************************************)
(* The build script.                                                       *)
(***************************************************************************)
\* C29: whenever run_build has ended, its caller has received a triple, and
\* its success is True only if a Gradle invocation exited with return code
\* 0.
C29_RunBuildReturnsTriple ==
    builder.pc \in {"run", "done"} =>
        /\ builder.returned.kind = "tuple"
        /\ builder.returned.success \in BOOLEAN
        /\ builder.returned.success => 0 \in builder.exits

\* C30: whenever run has ended, it returned 0 if the build succeeded and 1
\* if it did not; after a success build_errors.json, if it was written,
\* holds success true, error_count 0 and no errors; after a failure the
\* error list is not empty, it is exactly one 'general' error if neither
\* parser found an error, and the recorded error_count is the length of
\* the list.
C30_ExitCodeAndReport ==
    builder.pc = "done" =>
        LET succeeded == builder.returned.kind = "tuple" /\ builder.returned.success
        IN  /\ builder.exit_code = IF succeeded THEN "0" ELSE "1"
            /\ succeeded =>
                  (builder.json.written =>
                      /\ builder.json.success
                      /\ builder.json.error_count = 0
                      /\ builder.json.errors = <<>>)
            /\ ~succeeded =>
                  /\ builder.all_errors /= <<>>
                  /\ builder.found = 0 =>
                        /\ Len(builder.all_errors) = 1
                        /\ builder.all_errors[1].type = "general"
                  /\ builder.json.written =>
                        /\ ~builder.json.success
                        /\ builder.json.errors = builder.all_errors
                        /\ builder.json.error_count = Len(builder.all_errors)

====
